---- MODULE Spec2Model ----
(***************************************************************************)
(* Model of auxide-midi: the polyphonic voice allocator                    *)
(* (src/voice_allocator.rs), the MIDI message decoder and the input bridge *)
(* (src/midi_input.rs), the controller map (src/cc_mapping.rs), the voice   *)
(* state, the smoother, the conversions and the consumer loop of the       *)
(* poly_synth example (examples/poly_synth.rs).                            *)
(***************************************************************************)
EXTENDS Integers, Naturals, Sequences, FiniteSets, TLC

\* ---------------------------------------------------------------- bounds
\* Allocations a behaviour of Spec / SpecDrain / SpecWrap may perform.
MaxAllocs == 10
\* release_voice calls a behaviour of Spec / SpecWrap may perform.
MaxReleases == 1
\* Longest raw message handed to parse_message.
MaxLen == 4
\* Callback invocations a behaviour of SpecBridge models one by one.
MaxDeliveries == 2
\* try_recv calls a behaviour of SpecBridge may perform.
MaxPolls == 2
\* Connections a behaviour of SpecBridge may open (successful connect_device
\* calls).
MaxConnects == 2
\* set_mapping calls before the map_cc call
MaxSets == 2
\* calls on the VoiceState
MaxVoiceOps == 3
\* set_target and reset calls on the smoother
MaxSmootherCalls == 2
\* next_sample calls in a row, outside the 1000-sample step
MaxSamples == 2
\* Callback invocations a behaviour of SpecSynth models one by one.
MaxEvents == 3

\* ------------------------------------------------------- program constants
MAX_VOICES == 8
\* u32 values (VoiceSlot.age, next_age) are kept at their full width as two
\* 16-bit halves [hi, lo] = hi * 2^16 + lo, both halves in 0 .. Half - 1.
Half == 65536

VoiceIdx == 0 .. (MAX_VOICES - 1)

\* Note values the operations are called with (u8 samples).
Notes == {60, 64}

VARIABLES
    voices,     \* VoiceAllocator.voices : [VoiceSlot; MAX_VOICES]
    next_age,   \* VoiceAllocator.next_age : u32
    last,       \* the last call: operation, argument, return value
    pre,        \* voices, next_age and stamp before the last call
    stamp,      \* per slot: ordinal of the allocation that last wrote it
    nalloc,     \* number of allocate_voice calls performed so far (wide)
    steps,      \* allocate_voice steps taken (bounded by MaxAllocs)
    rels,       \* release_voice steps taken
    owed,       \* per note: allocations not yet matched by a release
    phase,      \* "alloc" | "release": the part of the drain scenario
    msg,        \* the byte slice handed to parse_message
    parsed,     \* the value parse_message returned for msg
    connection, \* MidiInputHandler.connection: 0 for None, else the connection id
    running,    \* MidiInputHandler.running (shared with every callback closure)
    queue,      \* the bounded channel event_sender -> event_receiver
    alive,      \* FALSE once the handler (and its receiver) has been dropped
    open,       \* connections the transport still delivers to
    cb,         \* per connection: the callback invocation in flight
    hpc,        \* where the thread owning the handler stands
    pend,       \* connect_device: the connection opened but not yet stored
    log,        \* every callback invocation so far, in invocation order
    received,   \* the entries try_recv has returned, in order
    act,        \* the last step of the bridge and its result
    bpre,       \* bridge fields before the last step
    singles,    \* callback invocations modelled one by one
    polls,      \* try_recv calls made
    connects,   \* connections opened so far
    late,       \* connections opened after a disconnect() call
    mappings,   \* CCMap.mappings: slot -> (controller number, target)
    ccin,       \* the arguments of the map_cc call
    ccout,      \* its result, Pending before the call
    sets,       \* set_mapping calls made
    ccpre,      \* CCMap.mappings before the last call
    cclast,     \* the last call on the CCMap and its arguments
    voice,      \* one VoiceState
    vlast,      \* the last call on the VoiceState and its arguments
    vpre,       \* the VoiceState before the last call
    vsteps,     \* calls made on the VoiceState
    sm,         \* one ParamSmoother: current, target, coeff
    smlast,     \* the last call on the smoother, its argument and result
    smpre,      \* the smoother before the last call
    smsteps,    \* calls made on the smoother
    gvel,       \* the argument of the velocity_to_gain call
    gain,       \* its result, Pending before the call
    synth,      \* the Synth of poly_synth: pool, allocator, map, smoother, ratio
    chan,       \* the bounded channel message_sender -> message_receiver
    spc,        \* where the main loop stands: "loop" | "blocked" | "panicked"
    noteoffs,   \* per NoteOff event handled: the allocator slots it deactivated
    bendout     \* the result of the last pitch_bend_to_ratio call, Pending before

allocatorVars == <<voices, next_age, last, pre, stamp, nalloc, steps, rels, owed, phase>>
bridgeVars == <<connection, running, queue, alive, open, cb, hpc, pend, log, received,
                act, bpre, singles, polls, connects, late>>
ccVars == <<mappings, ccin, ccout, sets, ccpre, cclast>>
dspVars == <<voice, vlast, vpre, vsteps, sm, smlast, smpre, smsteps, gvel, gain>>
synthVars == <<synth, chan, spc, noteoffs, bendout>>
vars == <<voices, next_age, last, pre, stamp, nalloc, steps, rels, owed, phase, msg, parsed,
          connection, running, queue, alive, open, cb, hpc, pend, log, received,
          act, bpre, singles, polls, connects, late, mappings, ccin, ccout, sets,
          ccpre, cclast, voice, vlast, vpre, vsteps, sm, smlast, smpre, smsteps,
          gvel, gain, synth, chan, spc, noteoffs, bendout>>

\* ------------------------------------------------------------- VoiceSlot
\* #[derive(Default)] VoiceSlot { active: false, note: 0, age: 0 }
U32Zero == [hi |-> 0, lo |-> 0]
U32One == [hi |-> 0, lo |-> 1]

\* a < b on u32
U32Less(a, b) == a.hi < b.hi \/ (a.hi = b.hi /\ a.lo < b.lo)

\* Unbounded sum of two numbers in the two-halves form (hi is not reduced).
WideAdd(a, b) ==
    [hi |-> a.hi + b.hi + ((a.lo + b.lo) \div Half), lo |-> (a.lo + b.lo) % Half]

VoiceSlotDefault == [active |-> FALSE, note |-> 0, age |-> U32Zero]

\* VoiceAllocator::new
VoiceAllocatorNew ==
    [voices |-> [i \in VoiceIdx |-> VoiceSlotDefault], next_age |-> U32Zero]

\* u32::wrapping_add(x, y)
wrapping_add(x, y) ==
    LET s == WideAdd(x, y) IN [hi |-> s.hi % Half, lo |-> s.lo]

\* The scan of allocate_voice: index of the first inactive slot in index
\* order, MAX_VOICES when the loop ends without returning.
RECURSIVE FirstInactive(_, _)
FirstInactive(vs, i) ==
    IF i >= MAX_VOICES THEN MAX_VOICES
    ELSE IF ~vs[i].active THEN i
    ELSE FirstInactive(vs, i + 1)

\* The loop of find_oldest_voice from index i with the running minimum.
RECURSIVE OldestScan(_, _, _, _)
OldestScan(vs, i, oldest_idx, oldest_age) ==
    IF i >= MAX_VOICES THEN oldest_idx
    ELSE IF U32Less(vs[i].age, oldest_age)
         THEN OldestScan(vs, i + 1, i, vs[i].age)
         ELSE OldestScan(vs, i + 1, oldest_idx, oldest_age)

\* find_oldest_voice that never moves off index 0.
find_oldest_voice_KeepsFirst(vs) == OldestScan(vs, MAX_VOICES, 0, vs[0].age)

\* find_oldest_voice with the comparison turned around (largest age).
find_oldest_voice_Newest(vs) ==
    CHOOSE i \in VoiceIdx : \A j \in VoiceIdx : ~U32Less(vs[i].age, vs[j].age)

find_oldest_voice(vs) == OldestScan(vs, 0, 0, vs[0].age)

\* allocate_voice without the stealing branch (None when all voices are busy).
AllocIndex_NoSteal(vs) == FirstInactive(vs, 0)

\* allocate_voice scanning the slots from the top.
AllocIndex_FromTop(vs) ==
    IF \E i \in VoiceIdx : ~vs[i].active
    THEN CHOOSE i \in VoiceIdx : ~vs[i].active /\ \A j \in VoiceIdx : j > i => vs[j].active
    ELSE find_oldest_voice(vs)

\* Slot index allocate_voice writes and returns.
AllocIndex(vs) ==
    LET f == FirstInactive(vs, 0)
    IN  IF f < MAX_VOICES THEN f ELSE find_oldest_voice(vs)

\* A slot value that does not record the age.
ClaimedSlot_NoAge(note, age) == [active |-> TRUE, note |-> note, age |-> U32Zero]

\* The slot value allocate_voice stores.
ClaimedSlot(note, age) == [active |-> TRUE, note |-> note, age |-> age]

\* An age counter that never advances.
NextAgeAfterAlloc_Stuck(na) == na

\* Age counter after one allocation.
NextAgeAfterAlloc(na) == wrapping_add(na, U32One)

\* The scan of release_voice: index of the first active slot storing note,
\* MAX_VOICES when there is none.
RECURSIVE FirstMatch(_, _, _)
FirstMatch(vs, note, i) ==
    IF i >= MAX_VOICES THEN MAX_VOICES
    ELSE IF vs[i].active /\ vs[i].note = note THEN i
    ELSE FirstMatch(vs, note, i + 1)

\* release_voice without the break: every matching slot is released.
ReleasedVoices_NoBreak(vs, note) ==
    [i \in VoiceIdx |->
        IF vs[i].active /\ vs[i].note = note THEN [vs[i] EXCEPT !.active = FALSE] ELSE vs[i]]

\* release_voice matching on the note alone, active or not.
ReleasedVoices_IgnoreActive(vs, note) ==
    IF \E i \in VoiceIdx : vs[i].note = note
    THEN LET m == CHOOSE i \in VoiceIdx :
                      vs[i].note = note /\ \A j \in VoiceIdx : j < i => vs[j].note # note
         IN  [vs EXCEPT ![m].active = FALSE]
    ELSE vs

\* voices after release_voice(note)
ReleasedVoices(vs, note) ==
    LET m == FirstMatch(vs, note, 0)
    IN  IF m < MAX_VOICES THEN [vs EXCEPT ![m].active = FALSE] ELSE vs

\* active_voice_count
active_voice_count(vs) == Cardinality({i \in DOMAIN vs : vs[i].active})

\* ------------------------------------------------- MidiInputHandler
\* Bitwise and / or of two non-negative integers, bit by bit.
RECURSIVE BitAnd(_, _)
BitAnd(x, y) ==
    IF x = 0 \/ y = 0 THEN 0
    ELSE 2 * BitAnd(x \div 2, y \div 2) + (IF x % 2 = 1 /\ y % 2 = 1 THEN 1 ELSE 0)

RECURSIVE BitOr(_, _)
BitOr(x, y) ==
    IF x = 0 THEN y
    ELSE IF y = 0 THEN x
    ELSE 2 * BitOr(x \div 2, y \div 2) + (IF x % 2 = 1 \/ y % 2 = 1 THEN 1 ELSE 0)

\* The 16-bit pattern v read as an i16.
AsI16(v) == LET m == v % 65536 IN IF m >= 32768 THEN m - 65536 ELSE m
\* The 16-bit pattern of the i16 x.
Bits16(x) == x % 65536

\* enum MidiEvent and Option::None
NoteOn(note, velocity) == [type |-> "NoteOn", d1 |-> note, d2 |-> velocity]
NoteOff(note, velocity) == [type |-> "NoteOff", d1 |-> note, d2 |-> velocity]
ControlChange(cc, value) == [type |-> "ControlChange", d1 |-> cc, d2 |-> value]
PitchBend(bend) == [type |-> "PitchBend", value |-> bend]
None == [type |-> "None"]

\* The status byte used unmasked.
StatusNibble_NoMask(status) == status

\* status & 0xF0
StatusNibble(status) == BitAnd(status, 240)

\* The bend assembled with a shift by 8 instead of 7.
BendValue_Shift8(bytes) ==
    AsI16(BitOr(Bits16(AsI16(bytes[3] * 256)), Bits16(bytes[2])))

\* ((bytes[2] as i16) << 7) | (bytes[1] as i16); sequences are 1-based here.
BendValue(bytes) ==
    LET shifted == AsI16(bytes[3] * 128)
    IN  AsI16(BitOr(Bits16(shifted), Bits16(bytes[2])))

\* The 0x90 arm without the velocity test.
NoteOnArm_NoZeroCheck(bytes) ==
    IF Len(bytes) >= 3 THEN NoteOn(bytes[2], bytes[3]) ELSE None

\* The 0x90 arm of parse_message.
NoteOnArm(bytes) ==
    IF Len(bytes) >= 3 /\ bytes[3] > 0 THEN NoteOn(bytes[2], bytes[3])
    ELSE IF Len(bytes) >= 3 THEN NoteOff(bytes[2], bytes[3])
    ELSE None

\* MidiInputHandler::parse_message
parse_message(bytes) ==
    IF Len(bytes) = 0 THEN None
    ELSE LET status == bytes[1]
             kind == StatusNibble(status)
         IN  IF kind = 144 THEN NoteOnArm(bytes)
             ELSE IF kind = 128
                  THEN IF Len(bytes) >= 3 THEN NoteOff(bytes[2], bytes[3]) ELSE None
             ELSE IF kind = 176
                  THEN IF Len(bytes) >= 3 THEN ControlChange(bytes[2], bytes[3]) ELSE None
             ELSE IF kind = 224
                  THEN IF Len(bytes) >= 3 THEN PitchBend(BendValue(bytes)) ELSE None
             ELSE None

\* Raw messages handed to parse_message: any status byte, data bytes from a
\* sample of u8 that has both 7-bit values and values with the top bit set.
Byte == 0 .. 255
DataBytes == {0, 64, 127, 128, 255}

RECURSIVE Tails(_)
Tails(n) ==
    IF n = 0 THEN {<<>>}
    ELSE Tails(n - 1) \cup {Append(t, d) : t \in {u \in Tails(n - 1) : Len(u) = n - 1}, d \in DataBytes}

Messages == {<<>>} \cup {<<b>> \o t : b \in Byte, t \in Tails(MaxLen - 1)}

\* parsed before parse_message has been called
Pending == [type |-> "Pending"]

\* ------------------------------------------------- the input bridge
\* bounded(256)
QueueCapacity == 256

\* Option<MidiInputConnection>::None
NoConnection == 0
ConnIds == 1 .. MaxConnects

\* A callback that goes on whatever the flag says.
CallbackPasses_Always(flag) == TRUE

\* if !running.load(Ordering::Relaxed) { return; }
CallbackPasses(flag) == flag

\* A channel that takes the event whatever its length.
try_send_Unbounded(q, e, receiverAlive) ==
    IF ~receiverAlive THEN [ok |-> FALSE, err |-> "Disconnected", queue |-> q]
    ELSE [ok |-> TRUE, err |-> "", queue |-> Append(q, e)]

\* Sender::try_send: Ok with the event appended, Err(Full) at capacity,
\* Err(Disconnected) once the receiver is gone; the channel is unchanged on Err.
try_send(q, e, receiverAlive) ==
    IF ~receiverAlive THEN [ok |-> FALSE, err |-> "Disconnected", queue |-> q]
    ELSE IF Len(q) >= QueueCapacity THEN [ok |-> FALSE, err |-> "Full", queue |-> q]
    ELSE [ok |-> TRUE, err |-> "", queue |-> Append(q, e)]

\* A callback that tries again until the channel takes the event.
AfterSendPc_Retry(result) == IF result.ok THEN "idle" ELSE "checked"

\* let _ = sender.try_send(event); -- the result is discarded and the
\* callback returns.
AfterSendPc(result) == "idle"

\* A receiver that discards the event behind the one it returns.
try_recv_result_DropsNext(q) ==
    IF Len(q) = 0 THEN [ret |-> None, queue |-> q]
    ELSE [ret |-> Head(q), queue |-> IF Len(q) = 1 THEN <<>> ELSE Tail(Tail(q))]

\* A receiver that takes the newest event instead of the oldest.
try_recv_result_Newest(q) ==
    IF Len(q) = 0 THEN [ret |-> None, queue |-> q]
    ELSE [ret |-> q[Len(q)], queue |-> SubSeq(q, 1, Len(q) - 1)]

\* MidiInputHandler::try_recv: event_receiver.try_recv().ok()
try_recv_result(q) ==
    IF Len(q) = 0 THEN [ret |-> None, queue |-> q]
    ELSE [ret |-> Head(q), queue |-> Tail(q)]

\* A connect_device that sets the flag again.
RunningAfterConnect_Rearm(flag) == TRUE

\* connect_device leaves self.running as it is (the closure gets a clone of
\* the same Arc).
RunningAfterConnect(flag) == flag

\* An index check that lets index = ports.len() through.
ConnectOutcome_OffByOne(index, nports, backend) ==
    IF backend = "init_error" THEN "Err"
    ELSE IF index > nports THEN "Err"
    ELSE IF backend = "refused" THEN "Err"
    ELSE "Ok"

\* Outcome of connect_device(index) given what the backend does: the number
\* of ports it lists and whether MidiInput::new / MidiInput::connect succeed.
ConnectOutcome(index, nports, backend) ==
    IF backend = "init_error" THEN "Err"
    ELSE IF index >= nports THEN "Err"
    ELSE IF backend = "refused" THEN "Err"
    ELSE "Ok"

\* Raw messages the transport delivers one by one: a Note On and a message
\* the decoder ignores.
BridgeMessages == {<<144, 60, 100>>, <<248>>}
\* The message of a burst of deliveries.
BurstMessage == <<176, 1, 64>>
\* Deliveries in a burst: one short of the queue capacity.
BurstLen == QueueCapacity - 1
\* What the backend may report to connect_device.
PortCounts == {1}
PortIndexes == {0, 1}
Backends == {"ok", "init_error", "refused"}

IdleCallback == [pc |-> "idle", seq |-> 0, bytes |-> <<>>]

BridgeSnapshot ==
    [connection |-> connection, running |-> running, queue |-> queue, open |-> open]

\* ------------------------------------------------------------------ f32
\* An f32 is a record [neg, e, m] of value (-1)^neg * m * 2^(e - 23): m = 0
\* for zero, else 2^23 <= m < 2^24 (the significand with its leading bit).
\* Arithmetic rounds to nearest, ties to even, as the hardware does.  Zero
\* has one representation; subnormals, infinities and NaN are outside the
\* values used here and show as F32OutOfRange.
SigBits == 24
SigMin == 8388608
SigMax == 16777216
ExpMin == -126
ExpMax == 127

F32Zero == [neg |-> FALSE, e |-> 0, m |-> 0]
F32One == [neg |-> FALSE, e |-> 0, m |-> SigMin]
F32OutOfRange == [neg |-> FALSE, e |-> 999, m |-> 0]

\* The f32 with the bit pattern b, for 0 <= b < 2^31 (sign bit clear) and a
\* normal or zero exponent field.
F32FromBits(b) ==
    IF b = 0 THEN F32Zero
    ELSE IF b \div SigMin = 0 \/ b \div SigMin = 255 THEN F32OutOfRange
    ELSE [neg |-> FALSE, e |-> (b \div SigMin) - 127, m |-> SigMin + (b % SigMin)]

F32Neg(a) == IF a.m = 0 THEN a ELSE [a EXCEPT !.neg = ~a.neg]
F32Abs(a) == [a EXCEPT !.neg = FALSE]

\* Number of bits of n: the k with 2^(k-1) <= n < 2^k, 0 for n = 0.
RECURSIVE BitLen(_)
BitLen(n) == IF n = 0 THEN 0 ELSE 1 + BitLen(n \div 2)

\* The f32 nearest to (-1)^neg * (M + f) * 2^x, where 0 <= f < 1 and
\* f > 0 exactly when sticky; M has 26 bits or more when sticky.
F32Round(neg, M, x, sticky) ==
    LET L == BitLen(M)
        d == L - SigBits
        q == IF d <= 0 THEN M * 2^(0 - d) ELSE M \div 2^d
        r == IF d <= 0 THEN 0 ELSE M % 2^d
        half == IF d <= 0 THEN 1 ELSE 2^(d - 1)
        up == d > 0 /\ (r > half \/ (r = half /\ (sticky \/ q % 2 = 1)))
        m1 == IF up THEN q + 1 ELSE q
        m == IF m1 = SigMax THEN SigMin ELSE m1
        e == IF m1 = SigMax THEN x + L ELSE x + L - 1
    IN  IF M = 0 THEN F32Zero
        ELSE IF e < ExpMin \/ e > ExpMax THEN F32OutOfRange
        ELSE [neg |-> neg, e |-> e, m |-> m]

\* a * b
F32Mul(a, b) ==
    IF a = F32OutOfRange \/ b = F32OutOfRange THEN F32OutOfRange
    ELSE IF a.m = 0 \/ b.m = 0 THEN F32Zero
    ELSE LET h1 == a.m \div 4096
             l1 == a.m % 4096
             h2 == b.m \div 4096
             l2 == b.m % 4096
             mid == h1 * l2 + l1 * h2
             low == (mid % 4096) * 4096 + l1 * l2
             hi == h1 * h2 + (mid \div 4096) + (low \div SigMax)
             lo == low % SigMax
         IN  F32Round(a.neg # b.neg, hi * 8 + (lo \div 2097152), a.e + b.e - 25,
                      lo % 2097152 # 0)

\* |a| < |b|
F32MagLess(a, b) ==
    IF b.m = 0 THEN FALSE
    ELSE IF a.m = 0 THEN TRUE
    ELSE a.e < b.e \/ (a.e = b.e /\ a.m < b.m)

\* a < b
F32Less(a, b) ==
    IF a.neg /\ ~b.neg THEN TRUE
    ELSE IF ~a.neg /\ b.neg THEN FALSE
    ELSE IF a.neg THEN F32MagLess(b, a)
    ELSE F32MagLess(a, b)

\* big + small or big - small for |big| >= |small| > 0, with the sign of big.
F32AddAligned(big, small, subtract) ==
    LET d == big.e - small.e
        Ma == big.m * 8
        Mb == IF d > 27 THEN 0 ELSE (small.m * 8) \div 2^d
        sticky == IF d > 27 THEN TRUE ELSE (small.m * 8) % 2^d # 0
        M == IF ~subtract THEN Ma + Mb
             ELSE IF sticky THEN Ma - Mb - 1
             ELSE Ma - Mb
    IN  F32Round(big.neg, M, big.e - 26, sticky)

\* a + b
F32Add(a, b) ==
    IF a = F32OutOfRange \/ b = F32OutOfRange THEN F32OutOfRange
    ELSE IF a.m = 0 THEN b
    ELSE IF b.m = 0 THEN a
    ELSE IF F32MagLess(a, b) THEN F32AddAligned(b, a, a.neg # b.neg)
    ELSE F32AddAligned(a, b, a.neg # b.neg)

\* a - b
F32Sub(a, b) == F32Add(a, F32Neg(b))

\* Long division of n by d: q collects quotient bits until it has 26, x
\* counts the bits after the binary point, r is the remainder.
RECURSIVE DivBits(_, _, _, _)
DivBits(q, r, d, x) ==
    IF BitLen(q) >= 26 THEN [q |-> q, r |-> r, x |-> x]
    ELSE DivBits(2 * q + ((2 * r) \div d), (2 * r) % d, d, x + 1)

\* n as f32 / d as f32 for integers 0 <= n, 0 < d below 2^24.
F32DivInt(n, d) ==
    IF n = 0 THEN F32Zero
    ELSE LET b == DivBits(n \div d, n % d, d, 0)
         IN  F32Round(FALSE, b.q, 0 - b.x, b.r # 0)

\* ----------------------------------------------------------- VoiceState
EnvStages == {"Idle", "Attack", "Decay", "Sustain", "Release"}

\* VoiceState::new
VoiceStateNew ==
    [osc_phase |-> F32Zero, filter_z1 |-> F32Zero, filter_z2 |-> F32Zero,
     env_stage |-> "Idle", env_level |-> F32Zero, note |-> 0, velocity |-> 0,
     active |-> FALSE]

\* VoiceState::reset
VoiceState_reset(v) ==
    [v EXCEPT !.osc_phase = F32Zero, !.filter_z1 = F32Zero, !.filter_z2 = F32Zero,
              !.env_stage = "Idle", !.env_level = F32Zero, !.active = FALSE]

\* A trigger that starts the envelope in its Decay stage.
VoiceState_trigger_Decay(v, note, velocity) ==
    [v EXCEPT !.note = note, !.velocity = velocity, !.env_stage = "Decay",
              !.env_level = F32Zero, !.active = TRUE]

\* VoiceState::trigger
VoiceState_trigger(v, note, velocity) ==
    [v EXCEPT !.note = note, !.velocity = velocity, !.env_stage = "Attack",
              !.env_level = F32Zero, !.active = TRUE]

\* A release that also clears active.
VoiceState_release_Deactivate(v) ==
    IF v.active THEN [v EXCEPT !.env_stage = "Release", !.active = FALSE] ELSE v

\* VoiceState::release
VoiceState_release(v) ==
    IF v.active THEN [v EXCEPT !.env_stage = "Release"] ELSE v

\* Arguments of trigger.
TriggerNotes == {60, 72}
TriggerVelocities == {1, 127}
\* Values the pub f32 fields may hold besides 0.0: 0.5 and 1.0.
F32Half == [neg |-> FALSE, e |-> -1, m |-> SigMin]
\* States a VoiceState may be in when a call arrives: every field is pub and
\* the synthesis engine advances phase, filter memory, stage and level.
PriorVoiceStates ==
    {[osc_phase |-> ph, filter_z1 |-> z, filter_z2 |-> z, env_stage |-> st,
      env_level |-> lv, note |-> nv[1], velocity |-> nv[2], active |-> a] :
        ph \in {F32Zero, F32Half}, z \in {F32Zero, F32Half}, st \in EnvStages,
        lv \in {F32Zero, F32One}, nv \in {<<0, 0>>, <<64, 100>>}, a \in BOOLEAN}

\* -------------------------------------------------------- ParamSmoother
\* a and the two floats next to it, for a normal a: the results a library
\* function of unspecified precision (exp, powf) may give where the correctly
\* rounded one is a.
F32Near(a) ==
    {a,
     IF a.m = SigMin THEN [a EXCEPT !.e = a.e - 1, !.m = SigMax - 1]
                     ELSE [a EXCEPT !.m = a.m - 1],
     IF a.m = SigMax - 1 THEN [a EXCEPT !.e = a.e + 1, !.m = SigMin]
                         ELSE [a EXCEPT !.m = a.m + 1]}

\* (-1.0 / (time_constant_seconds * sample_rate)).exp(), correctly rounded, as
\* f32 bits: 0x3F7F6B90 for 0.01 s and 0x3F7A42A5 for 0.001 s at 44100 Hz.
Coeff10ms == 1065315216
Coeff1ms == 1064977061

\* ParamSmoother::with_time_constant, given the result of its exp
with_time_constant(coeff) ==
    [current |-> F32Zero, target |-> F32Zero, coeff |-> coeff]

\* ParamSmoother::new with the correctly rounded coefficient
ParamSmootherNew == with_time_constant(F32FromBits(Coeff10ms))

\* The smoothers the constructors can make: new() and
\* with_time_constant(0.001, 44100.0), under every outcome of exp.
Smoothers ==
    {with_time_constant(c) :
        c \in F32Near(F32FromBits(Coeff10ms)) \cup F32Near(F32FromBits(Coeff1ms))}

\* A set_target that also snaps the realized value.
set_target_Snap(s, target) == [s EXCEPT !.target = target, !.current = target]

\* ParamSmoother::set_target
set_target(s, target) == [s EXCEPT !.target = target]

\* ParamSmoother::next_sample; the value returned is the new current
next_sample(s) ==
    [s EXCEPT !.current =
        F32Add(F32Mul(s.current, s.coeff),
               F32Mul(s.target, F32Sub(F32One, s.coeff)))]

\* ParamSmoother::reset
ParamSmoother_reset(s, value) == [s EXCEPT !.current = value, !.target = value]

\* Arguments of set_target: 1.0 and 3.997.
TargetValues == {F32One, F32FromBits(1082117849)}
\* Arguments of reset: 0.0, 3.997 and 31.9.
ResetValues == {F32Zero, F32FromBits(1082117849), F32FromBits(1107243827)}
\* The samples of the step test and its tolerance 0.01 (0x3C23D70A).
StepSamples == 1000
Tolerance == 1008981770

\* ---------------------------------------------------------- conversions
\* A gain that is linear in the velocity.
velocity_to_gain_Linear(velocity) == {F32DivInt(velocity, 127)}

\* velocity_to_gain: the values (velocity as f32 / 127.0).powf(2.0) may have.
\* powf has unspecified precision: its result is the correctly rounded
\* square or a float next to it, and exactly 0 and 1 for the bases 0 and 1.
velocity_to_gain(velocity) ==
    LET base == F32DivInt(velocity, 127)
        square == F32Mul(base, base)
    IN  IF base = F32Zero \/ base = F32One THEN {square} ELSE F32Near(square)

\* 8192, the centre of the bend range
BendCenter == 8192

\* pitch_bend_to_ratio(bend): 2^(semitones / 12) with semitones =
\* ((bend - 8192) as f32 / 8192.0) * 2.0.  The subtraction is an i16
\* subtraction: outside the i16 range it overflows (a panic where overflow
\* checks are compiled in, the wrapped difference where they are not).  powf
\* has unspecified precision; the ratio is kept as the difference it is
\* computed from.
pitch_bend_to_ratio(bend) ==
    LET d == bend - BendCenter
    IN  [overflow |-> (d < -32768 \/ d > 32767), offset |-> AsI16(d)]

\* ------------------------------------------------------- controller map
\* [(u8, ParamTarget); 16]
MAPPING_SLOTS == 16
SlotIdx == 0 .. (MAPPING_SLOTS - 1)

ParamTargets == {"FilterCutoff", "FilterResonance", "AttackTime", "ReleaseTime", "Unused"}

Mapping(cc_num, target) == [cc |-> cc_num, target |-> target]

\* CCMap::new
CCMapNew ==
    [[i \in SlotIdx |-> Mapping(0, "Unused")]
        EXCEPT ![0] = Mapping(1, "FilterCutoff"),
               ![1] = Mapping(74, "FilterResonance")]

\* A normalisation that divides by 128.
Normalized_By128(value) == F32DivInt(value, 128)

\* value as f32 / 127.0
Normalized(value) == F32DivInt(value, 127)

\* Option<(ParamTarget, f32)>: the f32 as norm, and as the fraction num / den
\* it rounds.
Mapped(target, value) ==
    [kind |-> "Some", target |-> target, num |-> value, den |-> 127,
     norm |-> Normalized(value)]
NotMapped == [kind |-> "None"]

\* A test that takes an Unused slot for a mapping.
SlotMatches_IgnoreUnused(slot, cc_num) == slot.cc = cc_num

\* *mapped_cc == cc_num && *target != ParamTarget::Unused
SlotMatches(slot, cc_num) == slot.cc = cc_num /\ slot.target # "Unused"

\* map_cc: the loop over the slots from slot i on.
RECURSIVE MapScan(_, _, _, _)
MapScan(m, cc_num, value, i) ==
    IF i >= MAPPING_SLOTS THEN NotMapped
    ELSE IF SlotMatches(m[i], cc_num) THEN Mapped(m[i].target, value)
    ELSE MapScan(m, cc_num, value, i + 1)

\* A lookup that returns the highest-indexed match.
map_cc_LastMatch(m, cc_num, value) ==
    LET hits == {i \in SlotIdx : SlotMatches(m[i], cc_num)}
    IN  IF hits = {} THEN NotMapped
        ELSE Mapped(m[CHOOSE i \in hits : \A j \in hits : j <= i].target, value)

map_cc(m, cc_num, value) == MapScan(m, cc_num, value, 0)

\* set_mapping: the loop over the slots from slot i on; the first slot that
\* is Unused or holds cc_num is overwritten, and the loop breaks.
RECURSIVE SetScan(_, _, _, _)
SetScan(m, cc_num, target, i) ==
    IF i >= MAPPING_SLOTS THEN m
    ELSE IF m[i].target = "Unused" \/ m[i].cc = cc_num
         THEN [m EXCEPT ![i] = Mapping(cc_num, target)]
    ELSE SetScan(m, cc_num, target, i + 1)

\* A set_mapping that goes on after the first slot it overwrites.
set_mapping_NoBreak(m, cc_num, target) ==
    [i \in SlotIdx |-> LET slot == m[i]
                       IN  IF slot.target = "Unused" \/ slot.cc = cc_num
                           THEN Mapping(cc_num, target) ELSE slot]

\* A set_mapping that evicts slot 0 when no slot is free or bound to cc_num.
set_mapping_Evict(m, cc_num, target) ==
    IF \E i \in SlotIdx : m[i].target = "Unused" \/ m[i].cc = cc_num
    THEN SetScan(m, cc_num, target, 0)
    ELSE [m EXCEPT ![0] = Mapping(cc_num, target)]

\* A set_mapping that looks for an Unused slot only.
set_mapping_OnlyUnused(m, cc_num, target) ==
    LET free == {i \in SlotIdx : m[i].target = "Unused"}
    IN  IF free = {} THEN m
        ELSE [m EXCEPT ![CHOOSE i \in free : \A j \in free : i <= j] =
                  Mapping(cc_num, target)]

set_mapping(m, cc_num, target) == SetScan(m, cc_num, target, 0)

\* Arguments of map_cc: every controller number, values on both sides of 127.
CCNumbers == Byte
CCValues == {0, 64, 127, 255}
\* Arguments of set_mapping.
SetNumbers == {1, 42, 74}
SetTargets == {"AttackTime", "Unused"}
\* Filling the table: set_mapping(FillBase + k, ReleaseTime) for k below
\* FillLen, which binds the fourteen slots new leaves Unused.
FillBase == 100
FillLen == MAPPING_SLOTS - 2

\* The table after the calls numbered k .. n - 1 of the fill.
RECURSIVE FillRange(_, _, _)
FillRange(m, k, n) ==
    IF k >= n THEN m
    ELSE FillRange(set_mapping(m, FillBase + k, "ReleaseTime"), k + 1, n)

\* ------------------------------------------------ the poly_synth example
\* bounded(256) of Synth::new
SynthChannelCapacity == 256

\* value * 5000.0 + 100.0: the two f32 literals
CutoffSpan == [neg |-> FALSE, e |-> 12, m |-> 10240000]
CutoffFloor == [neg |-> FALSE, e |-> 6, m |-> 13107200]

\* Synth::new
SynthNew ==
    [voice_pool |-> [i \in VoiceIdx |-> VoiceStateNew],
     voice_allocator |-> VoiceAllocatorNew,
     cc_map |-> CCMapNew,
     filter_cutoff_smoother |-> ParamSmootherNew,
     pitch_bend_ratio |-> [overflow |-> FALSE, offset |-> 0]]

\* enum SynthMessage
SynthNoteOn(voice_id, note, velocity) ==
    [type |-> "NoteOn", voice |-> voice_id, note |-> note, velocity |-> velocity]
SynthNoteOff(note) == [type |-> "NoteOff", note |-> note]
SynthControlChange(target, value) ==
    [type |-> "ControlChange", target |-> target, value |-> value]
SynthPitchBend(ratio) == [type |-> "PitchBend", ratio |-> ratio]

\* Synth::handle_midi_event up to the send: the Synth after the arm of the
\* event and the messages the arm hands to message_sender.send (at most one).
handle_midi_event(s, event) ==
    LET a == s.voice_allocator
    IN  CASE event.type = "NoteOn" ->
               LET idx == AllocIndex(a.voices)
               IN  [synth |-> [s EXCEPT !.voice_allocator =
                                  [voices |-> [a.voices EXCEPT ![idx] =
                                                  ClaimedSlot(event.d1, a.next_age)],
                                   next_age |-> NextAgeAfterAlloc(a.next_age)]],
                    out |-> <<SynthNoteOn(idx, event.d1, event.d2)>>]
          [] event.type = "NoteOff" ->
               [synth |-> [s EXCEPT !.voice_allocator.voices =
                              ReleasedVoices(a.voices, event.d1)],
                out |-> <<SynthNoteOff(event.d1)>>]
          [] event.type = "ControlChange" ->
               LET r == map_cc(s.cc_map, event.d1, event.d2)
               IN  [synth |-> s,
                    out |-> IF r.kind = "Some"
                            THEN <<SynthControlChange(r.target, r.norm)>>
                            ELSE <<>>]
          [] event.type = "PitchBend" ->
               [synth |-> s, out |-> <<SynthPitchBend(pitch_bend_to_ratio(event.value))>>]

\* One arm of the match in process_messages.  The NoteOff arm scans the pool
\* for the first voice that is active with the note, releases it (release
\* leaves active set) and calls voice_allocator.release_voice(note) again.
\* note_to_freq(note) in the NoteOn arm is computed and not used.
ProcessMessage(s, m) ==
    CASE m.type = "NoteOn" ->
           [s EXCEPT !.voice_pool[m.voice] = VoiceState_trigger(@, m.note, m.velocity)]
      [] m.type = "NoteOff" ->
           LET i == FirstMatch(s.voice_pool, m.note, 0)
           IN  IF i < MAX_VOICES
               THEN [s EXCEPT !.voice_pool[i] = VoiceState_release(@),
                              !.voice_allocator.voices = ReleasedVoices(@, m.note)]
               ELSE s
      [] m.type = "ControlChange" ->
           IF m.target = "FilterCutoff"
           THEN [s EXCEPT !.filter_cutoff_smoother =
                    set_target(@, F32Add(F32Mul(m.value, CutoffSpan), CutoffFloor))]
           ELSE s
      [] m.type = "PitchBend" -> [s EXCEPT !.pitch_bend_ratio = m.ratio]

\* Allocator slots active in before and inactive in after.
Freed(before, after) == {i \in VoiceIdx : before[i].active /\ ~after[i].active}

\* NoteOff messages of ch from index j on.
NoteOffsFrom(ch, j) == Cardinality({i \in j .. Len(ch) : ch[i].type = "NoteOff"})

\* One pass of the loop of process_messages, on message j of the channel.
\* st.noteoffs is the record of slots deactivated per NoteOff: the NoteOff
\* messages still in the channel belong to its last entries.
ProcessAt(st, ch, j) ==
    LET m == ch[j]
        t == ProcessMessage(st.synth, m)
        k == Len(st.noteoffs) - NoteOffsFrom(ch, j) + 1
    IN  [synth |-> t,
         noteoffs |-> IF m.type = "NoteOff"
                      THEN [st.noteoffs EXCEPT ![k] =
                               @ \cup Freed(st.synth.voice_allocator.voices,
                                            t.voice_allocator.voices)]
                      ELSE st.noteoffs]

\* The passes for messages lo .. hi in order.  The range is split in halves
\* and the second half starts from the computed result of the first, which
\* keeps the evaluation shallow.
RECURSIVE ProcessRange(_, _, _, _)
ProcessRange(st, ch, lo, hi) ==
    IF lo > hi THEN st
    ELSE IF lo = hi THEN ProcessAt(st, ch, lo)
    ELSE LET mid == (lo + hi) \div 2
         IN  CHOOSE r \in {ProcessRange(first, ch, mid + 1, hi) :
                               first \in {ProcessRange(st, ch, lo, mid)}} : TRUE

\* Synth::process_messages: while let Ok(message) = try_recv(), every
\* message of the channel in order.
process_messages(s, ch, offs) ==
    ProcessRange([synth |-> s, noteoffs |-> offs], ch, 1, Len(ch))

\* Raw messages the transport delivers to the synthesizer: Note On 60,
\* Note Off 60, controller 1 and the largest pitch bend.
SynthInputs == {<<144, 60, 100>>, <<128, 60, 0>>, <<176, 1, 64>>, <<224, 255, 255>>}

\* ------------------------------------------------------------ ghost state
NoCall == [op |-> "new", note |-> 0, ret |-> [kind |-> "Unit"]]
Some(i) == [kind |-> "Some", id |-> i]
Panic == [kind |-> "Panic"]

Snapshot == [voices |-> voices, next_age |-> next_age, stamp |-> stamp]

\* ----------------------------------------------------------------- Init
AllocInit ==
    /\ voices = VoiceAllocatorNew.voices
    /\ next_age = VoiceAllocatorNew.next_age
    /\ last = NoCall
    /\ stamp = [i \in VoiceIdx |-> U32Zero]
    /\ pre = [voices |-> VoiceAllocatorNew.voices,
              next_age |-> VoiceAllocatorNew.next_age,
              stamp |-> [i \in VoiceIdx |-> U32Zero]]
    /\ nalloc = U32Zero
    /\ steps = 0
    /\ rels = 0
    /\ owed = [n \in Notes |-> 0]
    /\ phase = "alloc"

ParseInit ==
    /\ msg = <<>>
    /\ parsed = Pending

\* MidiInputHandler::new
BridgeInit ==
    /\ connection = NoConnection
    /\ running = TRUE
    /\ queue = <<>>
    /\ alive = TRUE
    /\ open = {}
    /\ cb = [c \in ConnIds |-> IdleCallback]
    /\ hpc = "idle"
    /\ pend = NoConnection
    /\ log = <<>>
    /\ received = <<>>
    /\ act = [name |-> "new"]
    /\ bpre = [connection |-> NoConnection, running |-> TRUE, queue |-> <<>>, open |-> {}]
    /\ singles = 0
    /\ polls = 0
    /\ connects = 0
    /\ late = {}

\* CCMap::new, no call made yet
CCInit ==
    /\ mappings = CCMapNew
    /\ ccin = [cc |-> 1, value |-> 64]
    /\ ccout = Pending
    /\ sets = 0
    /\ ccpre = CCMapNew
    /\ cclast = [name |-> "new"]

\* A VoiceState and a ParamSmoother after construction, and the argument of a
\* velocity_to_gain call; no call made yet.
DspInit(voiceStates, smoothers, velocities) ==
    /\ voice \in voiceStates
    /\ vlast = [op |-> "new", note |-> 0, velocity |-> 0]
    /\ vpre = voice
    /\ vsteps = 0
    /\ sm \in smoothers
    /\ smlast = [op |-> "new", arg |-> F32Zero, out |-> F32Zero, run |-> 0, held |-> FALSE]
    /\ smpre = sm
    /\ smsteps = 0
    /\ gvel \in velocities
    /\ gain = Pending

DspNew == DspInit({VoiceStateNew}, {ParamSmootherNew}, {0})

\* Synth::new, no event handled yet
SynthInit ==
    /\ synth = SynthNew
    /\ chan = <<>>
    /\ spc = "loop"
    /\ noteoffs = <<>>
    /\ bendout = Pending

Init == AllocInit /\ ParseInit /\ BridgeInit /\ CCInit /\ DspNew /\ SynthInit

\* -------------------------------------------------------------- actions
\* VoiceAllocator::allocate_voice(note): the call and its bookkeeping.
AllocCall(note) ==
    LET idx == AllocIndex(voices)
    IN  /\ steps < MaxAllocs
        /\ steps' = steps + 1
        /\ pre' = Snapshot
        /\ nalloc' = WideAdd(nalloc, U32One)
        /\ IF idx \in VoiceIdx
           THEN /\ voices' = [voices EXCEPT ![idx] = ClaimedSlot(note, next_age)]
                /\ next_age' = NextAgeAfterAlloc(next_age)
                /\ stamp' = [stamp EXCEPT ![idx] = WideAdd(nalloc, U32One)]
                /\ last' = [op |-> "allocate", note |-> note, ret |-> Some(idx)]
           ELSE \* self.voices[oldest_idx] out of bounds
                /\ UNCHANGED <<voices, next_age, stamp>>
                /\ last' = [op |-> "allocate", note |-> note, ret |-> Panic]
        /\ UNCHANGED <<rels, msg, parsed>>
        /\ UNCHANGED bridgeVars
        /\ UNCHANGED ccVars
        /\ UNCHANGED dspVars
        /\ UNCHANGED synthVars

\* VoiceAllocator::release_voice(note): the call and its bookkeeping.
ReleaseCall(note) ==
    /\ pre' = Snapshot
    /\ voices' = ReleasedVoices(voices, note)
    /\ last' = [op |-> "release", note |-> note, ret |-> [kind |-> "Unit"]]
    /\ rels' = rels + 1
    /\ UNCHANGED <<next_age, stamp, nalloc, steps, msg, parsed>>
    /\ UNCHANGED bridgeVars
    /\ UNCHANGED ccVars
    /\ UNCHANGED dspVars
    /\ UNCHANGED synthVars

\* allocate_voice called at any time
allocate_voice(note) ==
    /\ AllocCall(note)
    /\ UNCHANGED <<owed, phase>>

\* release_voice called at any time
release_voice(note) ==
    /\ rels < MaxReleases
    /\ ReleaseCall(note)
    /\ UNCHANGED <<owed, phase>>

Next ==
    \/ \E n \in Notes : allocate_voice(n)
    \/ \E n \in Notes : release_voice(n)

Spec == Init /\ [][Next]_vars

\* ------------------------------------------------- the drain scenario
\* A fresh allocator, any sequence of allocate_voice calls, then one
\* release_voice call per allocation (tests/voice_allocator_tests.rs,
\* voice_allocator_no_panic_random_notes).
DrainAllocate(note) ==
    /\ phase = "alloc"
    /\ AllocCall(note)
    /\ owed' = [owed EXCEPT ![note] = @ + 1]
    /\ UNCHANGED phase

DrainRelease(note) ==
    /\ owed[note] > 0
    /\ ReleaseCall(note)
    /\ owed' = [owed EXCEPT ![note] = @ - 1]
    /\ phase' = "release"

NextDrain ==
    \/ \E n \in Notes : DrainAllocate(n)
    \/ \E n \in Notes : DrainRelease(n)

SpecDrain == Init /\ [][NextDrain]_vars

\* ------------------------------------------- the long-running allocator
\* On an allocator whose slot 0 is inactive, allocate_voice(note) claims slot
\* 0 and release_voice(note) frees it again (slot 0 is the first active slot
\* storing note).  RepeatCount such pairs in a row leave slot 0 inactive with
\* the age of the last allocation and advance next_age by RepeatCount.
RepeatCount == [hi |-> Half - 1, lo |-> Half - 3]
RepeatCountLessOne == [hi |-> Half - 1, lo |-> Half - 4]

AllocReleaseRepeat(note) ==
    LET lastAge == wrapping_add(next_age, RepeatCountLessOne)
        held == [voices EXCEPT ![0] = ClaimedSlot(note, lastAge)]
    IN  /\ nalloc = U32Zero
        /\ rels = 0
        /\ FirstInactive(voices, 0) = 0
        /\ voices' = ReleasedVoices(held, note)
        /\ next_age' = wrapping_add(next_age, RepeatCount)
        /\ nalloc' = WideAdd(nalloc, RepeatCount)
        /\ stamp' = [stamp EXCEPT ![0] = WideAdd(nalloc, RepeatCount)]
        /\ pre' = [voices |-> held,
                   next_age |-> wrapping_add(next_age, RepeatCount),
                   stamp |-> [stamp EXCEPT ![0] = WideAdd(nalloc, RepeatCount)]]
        /\ last' = [op |-> "release", note |-> note, ret |-> [kind |-> "Unit"]]
        /\ UNCHANGED <<steps, rels, owed, phase, msg, parsed>>
        /\ UNCHANGED bridgeVars
        /\ UNCHANGED ccVars
        /\ UNCHANGED dspVars
        /\ UNCHANGED synthVars

\* Calls made after the long run.
LateAllocate(note) == nalloc # U32Zero /\ allocate_voice(note)
LateRelease(note) == nalloc # U32Zero /\ release_voice(note)

NextWrap ==
    \/ \E n \in Notes : AllocReleaseRepeat(n)
    \/ \E n \in Notes : LateAllocate(n)
    \/ \E n \in Notes : LateRelease(n)

SpecWrap == Init /\ [][NextWrap]_vars

\* ------------------------------------------------- the decoder on its own
\* A raw message is drawn, then parse_message is applied to it.
ParseInputInit ==
    /\ msg \in Messages
    /\ parsed = Pending

InitParse == AllocInit /\ ParseInputInit /\ BridgeInit /\ CCInit /\ DspNew /\ SynthInit

ParseCall ==
    /\ parsed = Pending
    /\ parsed' = parse_message(msg)
    /\ UNCHANGED <<msg, voices, next_age, last, pre, stamp, nalloc, steps, rels, owed, phase>>
    /\ UNCHANGED bridgeVars
    /\ UNCHANGED ccVars
    /\ UNCHANGED dspVars
    /\ UNCHANGED synthVars

NextParse == ParseCall

SpecParse == InitParse /\ [][NextParse]_vars

\* ------------------------------------------------- the bridge in operation
\* The transport invokes the callback of connection c with a raw message;
\* the callback loads the liveness flag and returns at once when it is clear.
Deliver(c, bytes) ==
    LET seq == Len(log) + 1
        pass == CallbackPasses(running)
    IN  /\ c \in open
        /\ cb[c].pc = "idle"
        /\ singles < MaxDeliveries
        /\ singles' = singles + 1
        /\ bpre' = BridgeSnapshot
        /\ act' = [name |-> "Deliver", conn |-> c, seq |-> seq]
        /\ log' = Append(log, [conn |-> c, bytes |-> bytes, flag |-> running,
                               passed |-> pass, done |-> ~pass, sends |-> 0,
                               full |-> FALSE, gone |-> FALSE, flagAtSend |-> TRUE])
        /\ cb' = IF pass
                 THEN [cb EXCEPT ![c] = [pc |-> "checked", seq |-> seq, bytes |-> bytes]]
                 ELSE cb
        /\ UNCHANGED <<connection, running, queue, alive, open, hpc, pend, received,
                       polls, connects>>
        /\ UNCHANGED late
        /\ UNCHANGED allocatorVars
        /\ UNCHANGED <<msg, parsed>>
        /\ UNCHANGED ccVars
        /\ UNCHANGED dspVars
        /\ UNCHANGED synthVars

\* The callback of connection c, past the liveness check, decodes the message
\* and tries to enqueue the event.
Send(c) ==
    LET seq == cb[c].seq
        ev == parse_message(cb[c].bytes)
        r == try_send(queue, [seq |-> seq, conn |-> c, ev |-> ev], alive)
        pc == IF ev = None THEN "idle" ELSE AfterSendPc(r)
    IN  /\ cb[c].pc = "checked"
        /\ bpre' = BridgeSnapshot
        /\ act' = [name |-> "Send", conn |-> c, seq |-> seq]
        /\ queue' = IF ev = None THEN queue ELSE r.queue
        /\ cb' = [cb EXCEPT ![c] = IF pc = "idle" THEN IdleCallback ELSE [@ EXCEPT !.pc = pc]]
        /\ log' = [log EXCEPT ![seq] =
                      IF ev = None THEN [@ EXCEPT !.done = TRUE]
                      ELSE [@ EXCEPT !.done = (pc = "idle"),
                                     !.sends = @ + 1,
                                     !.full = (r.err = "Full"),
                                     !.gone = (r.err = "Disconnected"),
                                     !.flagAtSend = running]]
        /\ UNCHANGED <<connection, running, alive, open, hpc, pend, received,
                       singles, polls, connects>>
        /\ UNCHANGED late
        /\ UNCHANGED allocatorVars
        /\ UNCHANGED <<msg, parsed>>
        /\ UNCHANGED ccVars
        /\ UNCHANGED dspVars
        /\ UNCHANGED synthVars

\* BurstLen invocations of the callback of connection c in a row, each run to
\* its end, on a handler whose flag is set and whose queue is empty: every one
\* passes the check and enqueues ControlChange(1, 64).
DeliverBurst(c) ==
    LET entry(k) == [seq |-> k, conn |-> c, ev |-> parse_message(BurstMessage)]
        record == [conn |-> c, bytes |-> BurstMessage, flag |-> TRUE,
                   passed |-> TRUE, done |-> TRUE, sends |-> 1,
                   full |-> FALSE, gone |-> FALSE, flagAtSend |-> TRUE]
    IN  /\ c \in open
        /\ cb[c].pc = "idle"
        /\ Len(log) = 0
        /\ Len(queue) = 0
        /\ CallbackPasses(running)
        /\ running
        /\ alive
        /\ hpc = "idle"
        /\ bpre' = BridgeSnapshot
        /\ act' = [name |-> "DeliverBurst", conn |-> c, seq |-> BurstLen]
        /\ queue' = [k \in 1 .. BurstLen |-> entry(k)]
        /\ log' = [k \in 1 .. BurstLen |-> record]
        /\ UNCHANGED <<connection, running, alive, open, cb, hpc, pend, received,
                       singles, polls, connects>>
        /\ UNCHANGED late
        /\ UNCHANGED allocatorVars
        /\ UNCHANGED <<msg, parsed>>
        /\ UNCHANGED ccVars
        /\ UNCHANGED dspVars
        /\ UNCHANGED synthVars

\* MidiInputHandler::try_recv, the call itself
TryRecvCall ==
    LET r == try_recv_result(queue)
    IN  /\ alive
        /\ hpc = "idle"
        /\ bpre' = BridgeSnapshot
        /\ act' = [name |-> "try_recv", ret |-> r.ret]
        /\ queue' = r.queue
        /\ received' = IF r.ret = None THEN received ELSE Append(received, r.ret)
        /\ UNCHANGED <<connection, running, alive, open, cb, hpc, pend, log,
                       singles, connects>>
        /\ UNCHANGED late
        /\ UNCHANGED allocatorVars
        /\ UNCHANGED <<msg, parsed>>
        /\ UNCHANGED ccVars
        /\ UNCHANGED dspVars
        /\ UNCHANGED synthVars

\* try_recv called at most MaxPolls times
try_recv ==
    /\ polls < MaxPolls
    /\ polls' = polls + 1
    /\ TryRecvCall

\* MidiInputHandler::connect_device(index), up to the point where
\* midi_in.connect has returned: on Ok the new connection is live and its
\* callback installed, self.connection is not yet assigned.
connect_device(index, nports, backend) ==
    LET outcome == ConnectOutcome(index, nports, backend)
        new == connects + 1
    IN  /\ alive
        /\ hpc = "idle"
        /\ outcome = "Ok" => connects < MaxConnects
        /\ bpre' = BridgeSnapshot
        /\ act' = [name |-> "connect_device", index |-> index, nports |-> nports,
                   ret |-> outcome]
        /\ running' = RunningAfterConnect(running)
        /\ IF outcome = "Ok"
           THEN /\ open' = open \cup {new}
                /\ pend' = new
                /\ hpc' = "storing"
                /\ connects' = connects + 1
           ELSE UNCHANGED <<open, pend, hpc, connects>>
        /\ late' = IF outcome = "Ok" /\ ~running THEN late \cup {new} ELSE late
        /\ UNCHANGED <<connection, queue, alive, cb, log, received, singles, polls>>
        /\ UNCHANGED allocatorVars
        /\ UNCHANGED <<msg, parsed>>
        /\ UNCHANGED ccVars
        /\ UNCHANGED dspVars
        /\ UNCHANGED synthVars

\* connect_device: self.connection = Some(connection); the connection stored
\* before is dropped, which closes it.
ConnectStore ==
    /\ hpc = "storing"
    /\ bpre' = BridgeSnapshot
    /\ act' = [name |-> "ConnectStore", conn |-> pend]
    /\ connection' = pend
    /\ open' = open \ {connection}
    /\ pend' = NoConnection
    /\ hpc' = "idle"
    /\ UNCHANGED <<running, queue, alive, cb, log, received, singles, polls, connects>>
    /\ UNCHANGED late
    /\ UNCHANGED allocatorVars
    /\ UNCHANGED <<msg, parsed>>
    /\ UNCHANGED ccVars
    /\ UNCHANGED dspVars
    /\ UNCHANGED synthVars

\* MidiInputHandler::disconnect, first statement: running.store(false).
\* how = "disconnect" for a call, "drop" for Drop::drop calling it.
DisconnectStore(how) ==
    /\ alive
    /\ hpc = "idle"
    /\ bpre' = BridgeSnapshot
    /\ act' = [name |-> "DisconnectStore", how |-> how]
    /\ running' = FALSE
    /\ hpc' = how
    /\ UNCHANGED <<connection, queue, alive, open, cb, pend, log, received,
                   singles, polls, connects>>
    /\ UNCHANGED late
    /\ UNCHANGED allocatorVars
    /\ UNCHANGED <<msg, parsed>>
    /\ UNCHANGED ccVars
    /\ UNCHANGED dspVars
    /\ UNCHANGED synthVars

\* A disconnect that also empties the queue.
DisconnectTake_ClearsQueue ==
    /\ hpc \in {"disconnect", "drop"}
    /\ bpre' = BridgeSnapshot
    /\ act' = [name |-> "DisconnectTake", how |-> hpc]
    /\ connection' = NoConnection
    /\ open' = open \ {connection}
    /\ alive' = (hpc # "drop")
    /\ hpc' = "idle"
    /\ queue' = <<>>
    /\ UNCHANGED <<running, cb, pend, log, received, singles, polls, connects>>
    /\ UNCHANGED late
    /\ UNCHANGED allocatorVars
    /\ UNCHANGED <<msg, parsed>>
    /\ UNCHANGED ccVars
    /\ UNCHANGED dspVars
    /\ UNCHANGED synthVars

\* MidiInputHandler::disconnect, second statement: self.connection.take()
\* drops the connection; after Drop::drop the fields (receiver) go as well.
DisconnectTake ==
    /\ hpc \in {"disconnect", "drop"}
    /\ bpre' = BridgeSnapshot
    /\ act' = [name |-> "DisconnectTake", how |-> hpc]
    /\ connection' = NoConnection
    /\ open' = open \ {connection}
    /\ alive' = (hpc # "drop")
    /\ hpc' = "idle"
    /\ UNCHANGED <<running, queue, cb, pend, log, received, singles, polls, connects>>
    /\ UNCHANGED late
    /\ UNCHANGED allocatorVars
    /\ UNCHANGED <<msg, parsed>>
    /\ UNCHANGED ccVars
    /\ UNCHANGED dspVars
    /\ UNCHANGED synthVars

NextBridge ==
    \/ \E c \in ConnIds, b \in BridgeMessages : Deliver(c, b)
    \/ \E c \in ConnIds : Send(c)
    \/ try_recv
    \/ \E i \in PortIndexes, n \in PortCounts, b \in Backends : connect_device(i, n, b)
    \/ ConnectStore
    \/ \E how \in {"disconnect", "drop"} : DisconnectStore(how)
    \/ DisconnectTake

SpecBridge == Init /\ [][NextBridge]_vars

\* ------------------------------------- the bridge with a polling consumer
\* The consumer of examples/poly_synth.rs calls try_recv again and again
\* (main loop); the handler is not dropped, disconnect is called once,
\* connect_device succeeds, and every call of the handler's thread returns.
LivePoll == TryRecvCall /\ UNCHANGED polls
LiveDisconnect == running /\ DisconnectStore("disconnect")

NextLive ==
    \/ \E c \in ConnIds, b \in BridgeMessages : Deliver(c, b)
    \/ \E c \in ConnIds : Send(c)
    \/ LivePoll
    \/ \E n \in PortCounts : connect_device(0, n, "ok")
    \/ ConnectStore
    \/ LiveDisconnect
    \/ DisconnectTake

SpecLive ==
    /\ Init
    /\ [][NextLive]_vars
    /\ WF_vars(LivePoll)
    /\ WF_vars(ConnectStore)
    /\ WF_vars(DisconnectTake)

\* ------------------------------------------------- the bridge under a burst
\* One connection is opened and the transport delivers a burst that the
\* consumer does not poll; the calls above follow.
FirstConnect(index, nports, backend) ==
    /\ connects = 0
    /\ ConnectOutcome(index, nports, backend) = "Ok"
    /\ connect_device(index, nports, backend)

LateDeliver(c, bytes) == Len(log) >= BurstLen /\ Deliver(c, bytes)
LatePoll == Len(log) >= BurstLen /\ try_recv
LateDisconnect(how) == Len(log) >= BurstLen /\ DisconnectStore(how)

NextBurst ==
    \/ \E i \in PortIndexes, n \in PortCounts, b \in Backends : FirstConnect(i, n, b)
    \/ ConnectStore
    \/ \E c \in ConnIds : DeliverBurst(c)
    \/ \E c \in ConnIds, b \in BridgeMessages : LateDeliver(c, b)
    \/ \E c \in ConnIds : Send(c)
    \/ LatePoll
    \/ \E how \in {"disconnect", "drop"} : LateDisconnect(how)
    \/ DisconnectTake

SpecBurst == Init /\ [][NextBurst]_vars

\* ------------------------------------------------- the controller map
CCInputInit ==
    /\ mappings = CCMapNew
    /\ ccin \in [cc : CCNumbers, value : CCValues]
    /\ ccout = Pending
    /\ sets = 0
    /\ ccpre = CCMapNew
    /\ cclast = [name |-> "new"]

InitCC == AllocInit /\ ParseInit /\ BridgeInit /\ CCInputInit /\ DspNew /\ SynthInit

\* CCMap::set_mapping(cc_num, target), on the table as constructed or after
\* the fill.
SetMappingCall(cc_num, target) ==
    /\ ccout = Pending
    /\ sets < MaxSets \/ (sets >= FillLen /\ sets < FillLen + MaxSets)
    /\ sets' = sets + 1
    /\ ccpre' = mappings
    /\ cclast' = [name |-> "set_mapping", cc |-> cc_num, target |-> target]
    /\ mappings' = set_mapping(mappings, cc_num, target)
    /\ UNCHANGED <<ccin, ccout>>
    /\ UNCHANGED allocatorVars
    /\ UNCHANGED <<msg, parsed>>
    /\ UNCHANGED bridgeVars
    /\ UNCHANGED dspVars
    /\ UNCHANGED synthVars

\* CCMap::map_cc(cc_num, value)
MapCcCall ==
    /\ ccout = Pending
    /\ ccpre' = mappings
    /\ cclast' = [name |-> "map_cc", cc |-> ccin.cc, target |-> "Unused",
                  prev |-> cclast, before |-> ccpre]
    /\ ccout' = map_cc(mappings, ccin.cc, ccin.value)
    /\ UNCHANGED <<mappings, ccin, sets>>
    /\ UNCHANGED allocatorVars
    /\ UNCHANGED <<msg, parsed>>
    /\ UNCHANGED bridgeVars
    /\ UNCHANGED dspVars
    /\ UNCHANGED synthVars

NextCC ==
    \/ \E c \in SetNumbers, t \in SetTargets : SetMappingCall(c, t)
    \/ MapCcCall

SpecCC == InitCC /\ [][NextCC]_vars

\* FillLen set_mapping calls in a row on the table as constructed.
FillCall ==
    /\ ccout = Pending
    /\ sets = 0
    /\ sets' = FillLen
    /\ ccpre' = FillRange(mappings, 0, FillLen - 1)
    /\ cclast' = [name |-> "set_mapping", cc |-> FillBase + FillLen - 1,
                  target |-> "ReleaseTime"]
    /\ mappings' = FillRange(mappings, 0, FillLen)
    /\ UNCHANGED <<ccin, ccout>>
    /\ UNCHANGED allocatorVars
    /\ UNCHANGED <<msg, parsed>>
    /\ UNCHANGED bridgeVars
    /\ UNCHANGED dspVars
    /\ UNCHANGED synthVars

NextCCFull ==
    \/ FillCall
    \/ \E c \in SetNumbers, t \in SetTargets : SetMappingCall(c, t)
    \/ MapCcCall

SpecCCFull == InitCC /\ [][NextCCFull]_vars

\* ------------------------------------------------------ the VoiceState
VoiceCall(op, note, velocity, after) ==
    /\ vsteps < MaxVoiceOps
    /\ vsteps' = vsteps + 1
    /\ vpre' = voice
    /\ vlast' = [op |-> op, note |-> note, velocity |-> velocity]
    /\ voice' = after
    /\ UNCHANGED allocatorVars
    /\ UNCHANGED <<msg, parsed>>
    /\ UNCHANGED bridgeVars
    /\ UNCHANGED ccVars
    /\ UNCHANGED <<sm, smlast, smpre, smsteps, gvel, gain>>
    /\ UNCHANGED synthVars

\* VoiceState::trigger(note, velocity)
TriggerCall(note, velocity) ==
    VoiceCall("trigger", note, velocity, VoiceState_trigger(voice, note, velocity))

\* VoiceState::release()
VoiceReleaseCall == VoiceCall("release", 0, 0, VoiceState_release(voice))

\* VoiceState::reset()
VoiceResetCall == VoiceCall("reset", 0, 0, VoiceState_reset(voice))

NextVoice ==
    \/ \E n \in TriggerNotes, v \in TriggerVelocities : TriggerCall(n, v)
    \/ VoiceReleaseCall
    \/ VoiceResetCall

\* The calls on a VoiceState made by new.
SpecVoiceOps == Init /\ [][NextVoice]_vars

\* The calls on a VoiceState in any state its pub fields allow.
InitVoice ==
    /\ AllocInit /\ ParseInit /\ BridgeInit /\ CCInit
    /\ DspInit(PriorVoiceStates, {ParamSmootherNew}, {0})
    /\ SynthInit

SpecVoice == InitVoice /\ [][NextVoice]_vars

\* ---------------------------------------------------- the ParamSmoother
\* A call of set_target or reset.
SmootherCall(op, arg, after, held) ==
    /\ smsteps < MaxSmootherCalls
    /\ smlast.run <= MaxSamples
    /\ smsteps' = smsteps + 1
    /\ smpre' = sm
    /\ smlast' = [op |-> op, arg |-> arg, out |-> F32Zero, run |-> 0, held |-> held]
    /\ sm' = after
    /\ UNCHANGED allocatorVars
    /\ UNCHANGED <<msg, parsed>>
    /\ UNCHANGED bridgeVars
    /\ UNCHANGED ccVars
    /\ UNCHANGED <<voice, vlast, vpre, vsteps, gvel, gain>>
    /\ UNCHANGED synthVars

\* ParamSmoother::set_target(target); held records that the target is still
\* the value of the last reset.
SetTargetCall(target) ==
    SmootherCall("set_target", target, set_target(sm, target),
                 smlast.held /\ target = sm.target)

\* ParamSmoother::reset(value)
SmootherResetCall(value) ==
    SmootherCall("reset", value, ParamSmoother_reset(sm, value), TRUE)

\* ParamSmoother::next_sample(): a few in a row in any state, and the
\* StepSamples of the step test after the first call on a 1 ms smoother.
NextSampleCall ==
    /\ \/ smlast.run < MaxSamples
       \/ /\ smsteps = 1
          /\ sm.target = F32One
          /\ sm.coeff \in F32Near(F32FromBits(Coeff1ms))
          /\ smlast.run < StepSamples
    /\ smpre' = sm
    /\ sm' = next_sample(sm)
    /\ smlast' = [smlast EXCEPT !.op = "next_sample", !.out = sm'.current,
                                !.run = smlast.run + 1]
    /\ UNCHANGED smsteps
    /\ UNCHANGED allocatorVars
    /\ UNCHANGED <<msg, parsed>>
    /\ UNCHANGED bridgeVars
    /\ UNCHANGED ccVars
    /\ UNCHANGED <<voice, vlast, vpre, vsteps, gvel, gain>>
    /\ UNCHANGED synthVars

NextSmoother ==
    \/ \E t \in TargetValues : SetTargetCall(t)
    \/ \E v \in ResetValues : SmootherResetCall(v)
    \/ NextSampleCall

InitSmoother ==
    /\ AllocInit /\ ParseInit /\ BridgeInit /\ CCInit
    /\ DspInit({VoiceStateNew}, Smoothers, {0})
    /\ SynthInit

SpecSmoother == InitSmoother /\ [][NextSmoother]_vars

\* ------------------------------------------------------ velocity_to_gain
\* One call velocity_to_gain(gvel).
GainCall ==
    /\ gain = Pending
    /\ gain' \in velocity_to_gain(gvel)
    /\ UNCHANGED gvel
    /\ UNCHANGED allocatorVars
    /\ UNCHANGED <<msg, parsed>>
    /\ UNCHANGED bridgeVars
    /\ UNCHANGED ccVars
    /\ UNCHANGED <<voice, vlast, vpre, vsteps, sm, smlast, smpre, smsteps>>
    /\ UNCHANGED synthVars

\* The argument is any u8.
InitGain ==
    /\ AllocInit /\ ParseInit /\ BridgeInit /\ CCInit
    /\ DspInit({VoiceStateNew}, {ParamSmootherNew}, Byte)
    /\ SynthInit

SpecGain == InitGain /\ [][GainCall]_vars

\* ------------------------------------------- pitch bend, decoder to ratio
\* The PitchBend arm of handle_midi_event on the event the decoder returned:
\* let ratio = pitch_bend_to_ratio(bend).
BendCall ==
    /\ parsed.type = "PitchBend"
    /\ bendout = Pending
    /\ bendout' = pitch_bend_to_ratio(parsed.value)
    /\ UNCHANGED <<synth, chan, spc, noteoffs>>
    /\ UNCHANGED allocatorVars
    /\ UNCHANGED <<msg, parsed>>
    /\ UNCHANGED bridgeVars
    /\ UNCHANGED ccVars
    /\ UNCHANGED dspVars

NextBend ==
    \/ ParseCall
    \/ BendCall

SpecBend == InitParse /\ [][NextBend]_vars

\* ------------------------------------------- the poly_synth main loop
\* main: midi_handler.connect_device(device_index)?, once, before the loop.
SynthConnect(nports) == connects = 0 /\ connect_device(0, nports, "ok")

\* One invocation of the callback run to its end while the main loop runs
\* (the flag is set until the loop is left): the liveness check, the decoder
\* and try_send.  After a burst the single invocations come when the synth
\* channel is within two messages of its capacity.
CallbackRun(c, bytes) ==
    LET seq == Len(log) + 1
        ev == parse_message(bytes)
        r == try_send(queue, [seq |-> seq, conn |-> c, ev |-> ev], alive)
    IN  /\ c \in open
        /\ cb[c].pc = "idle"
        /\ CallbackPasses(running)
        /\ singles < MaxEvents
        /\ Len(log) < BurstLen \/ Len(chan) >= SynthChannelCapacity - 2
        /\ singles' = singles + 1
        /\ bpre' = BridgeSnapshot
        /\ act' = [name |-> "Deliver", conn |-> c, seq |-> seq]
        /\ queue' = IF ev = None THEN queue ELSE r.queue
        /\ log' = Append(log, [conn |-> c, bytes |-> bytes, flag |-> running,
                               passed |-> TRUE, done |-> TRUE,
                               sends |-> IF ev = None THEN 0 ELSE 1,
                               full |-> (ev # None /\ r.err = "Full"),
                               gone |-> (ev # None /\ r.err = "Disconnected"),
                               flagAtSend |-> running])
        /\ UNCHANGED <<connection, running, alive, open, cb, hpc, pend, received,
                       polls, connects>>
        /\ UNCHANGED late
        /\ UNCHANGED allocatorVars
        /\ UNCHANGED <<msg, parsed>>
        /\ UNCHANGED ccVars
        /\ UNCHANGED dspVars
        /\ UNCHANGED synthVars

\* One pass of the inner loop: try_recv returns Some(event) and
\* handle_midi_event(event) runs.  message_sender.send blocks while the
\* channel is full; its receiver is drained by process_messages on this same
\* thread, so a send on a full channel never returns.  An overflowing
\* subtraction in pitch_bend_to_ratio panics or wraps.
SynthHandle ==
    LET r == try_recv_result(queue)
        event == r.ret.ev
        h == handle_midi_event(synth, event)
        full == h.out # <<>> /\ Len(chan) >= SynthChannelCapacity
        overflow == event.type = "PitchBend" /\ h.out[1].ratio.overflow
    IN  /\ spc = "loop"
        /\ alive
        /\ hpc = "idle"
        /\ connection # NoConnection
        /\ r.ret # None
        /\ bpre' = BridgeSnapshot
        /\ act' = [name |-> "try_recv", ret |-> r.ret]
        /\ queue' = r.queue
        /\ received' = Append(received, r.ret)
        /\ synth' = h.synth
        /\ noteoffs' = IF event.type = "NoteOff"
                       THEN Append(noteoffs, Freed(synth.voice_allocator.voices,
                                                   h.synth.voice_allocator.voices))
                       ELSE noteoffs
        /\ bendout' = IF event.type = "PitchBend" THEN h.out[1].ratio ELSE bendout
        /\ chan' = IF full THEN chan ELSE chan \o h.out
        /\ spc' \in (IF overflow THEN {"panicked"} ELSE {})
                       \cup {IF full THEN "blocked" ELSE "loop"}
        /\ UNCHANGED <<connection, running, alive, open, cb, hpc, pend, log,
                       singles, polls, connects>>
        /\ UNCHANGED late
        /\ UNCHANGED allocatorVars
        /\ UNCHANGED <<msg, parsed>>
        /\ UNCHANGED ccVars
        /\ UNCHANGED dspVars

\* The inner loop ends (try_recv returns None) and process_messages drains
\* the synth channel; the thread then sleeps and starts the loop again.
SynthProcess ==
    LET r == try_recv_result(queue)
        p == process_messages(synth, chan, noteoffs)
    IN  /\ spc = "loop"
        /\ alive
        /\ hpc = "idle"
        /\ connection # NoConnection
        /\ r.ret = None
        /\ bpre' = BridgeSnapshot
        /\ act' = [name |-> "try_recv", ret |-> r.ret]
        /\ synth' = p.synth
        /\ noteoffs' = p.noteoffs
        /\ chan' = <<>>
        /\ UNCHANGED <<spc, bendout>>
        /\ UNCHANGED <<connection, running, queue, alive, open, cb, hpc, pend, log,
                       received, singles, polls, connects>>
        /\ UNCHANGED late
        /\ UNCHANGED allocatorVars
        /\ UNCHANGED <<msg, parsed>>
        /\ UNCHANGED ccVars
        /\ UNCHANGED dspVars

NextSynth ==
    \/ \E n \in PortCounts : SynthConnect(n)
    \/ ConnectStore
    \/ \E c \in ConnIds, b \in SynthInputs : CallbackRun(c, b)
    \/ \E c \in ConnIds : DeliverBurst(c)
    \/ SynthHandle
    \/ SynthProcess

SpecSynth == Init /\ [][NextSynth]_vars

\* ================================================== voice allocator claims
SetMin(S) == CHOOSE m \in S : \A x \in S : m <= x

Inactive(vs) == {i \in VoiceIdx : ~vs[i].active}
PoolFull(vs) == Inactive(vs) = {}
Allocated == last.op = "allocate"
Released == last.op = "release"
\* Active slots of vs that store note.
Sounding(vs, note) == {i \in VoiceIdx : vs[i].active /\ vs[i].note = note}
\* Slots of vs whose age no other slot undercuts.
MinAgeSlots(vs) == {i \in VoiceIdx : \A j \in VoiceIdx : ~U32Less(vs[j].age, vs[i].age)}
AgesDistinct(vs) == \A i, j \in VoiceIdx : i # j => vs[i].age # vs[j].age

C2_LowestInactiveClaimed ==
    Allocated =>
        /\ Inactive(pre.voices) # {} =>
              LET m == SetMin(Inactive(pre.voices))
              IN  /\ last.ret = Some(m)
                  /\ voices[m].active /\ voices[m].note = last.note
                  /\ \A i \in VoiceIdx \ {m} : voices[i] = pre.voices[i]
        /\ \A i \in VoiceIdx :
              (pre.voices[i].active /\ voices[i] # pre.voices[i]) => PoolFull(pre.voices)

\* C2 witness: a slot freed by release_voice is claimed again while voices
\* with a higher index are still active.
C2_Witness ==
    /\ Allocated /\ rels > 0 /\ Inactive(pre.voices) # {}
    /\ last.ret.kind = "Some"
    /\ \E j \in VoiceIdx : j > last.ret.id /\ pre.voices[j].active
    /\ pre.voices[last.ret.id].age # U32Zero

C5_RetriggerDistinctVoice ==
    Allocated =>
        \A v \in Sounding(pre.voices, last.note) :
            /\ last.ret # Some(v)
            /\ voices[v].active /\ voices[v].note = last.note

\* C6: release_voice(note) deactivates exactly the lowest-indexed active slot
\* storing note and changes nothing else (no other slot, no age, not
\* next_age); without such a slot the allocator is unchanged.
C6_ReleaseFrame ==
    Released =>
        LET M == Sounding(pre.voices, last.note)
        IN  /\ next_age = pre.next_age
            /\ last.ret.kind = "Unit"
            /\ IF M = {}
               THEN voices = pre.voices
               ELSE /\ ~voices[SetMin(M)].active
                    /\ voices[SetMin(M)].note = pre.voices[SetMin(M)].note
                    /\ voices[SetMin(M)].age = pre.voices[SetMin(M)].age
                    /\ \A i \in VoiceIdx \ {SetMin(M)} : voices[i] = pre.voices[i]

\* C6 witness: a release of a note that sounds from two voices, the lower of
\* which is not slot 0.
C6_Witness ==
    /\ Released
    /\ Cardinality(Sounding(pre.voices, last.note)) >= 2
    /\ SetMin(Sounding(pre.voices, last.note)) > 0
    /\ active_voice_count(voices) = active_voice_count(pre.voices) - 1

\* C7: fresh allocator, any sequence of allocations, then one release per
\* allocation of each note: no voice is active at the end.
C7_DrainLeavesNoneActive ==
    (\A n \in Notes : owed[n] = 0) => active_voice_count(voices) = 0

\* C7 witness: the end of a drain whose allocations forced stealing.
C7_Witness ==
    /\ phase = "release" /\ \A n \in Notes : owed[n] = 0
    /\ steps > MAX_VOICES /\ rels = steps

\* C8: next_age advances by one (mod 2^32) per allocation, and a steal on a
\* full pool whose ages are pairwise distinct takes the least recently
\* allocated slot, also across the wrap of next_age.
C8_WrapKeepsStealOrder ==
    Allocated =>
        /\ next_age = wrapping_add(pre.next_age, U32One)
        /\ (PoolFull(pre.voices) /\ AgesDistinct(pre.voices)) =>
              \E k \in VoiceIdx :
                  /\ last.ret = Some(k)
                  /\ \A j \in VoiceIdx \ {k} : U32Less(pre.stamp[k], pre.stamp[j])

\* ========================================================= decoder claims
\* C9: a Note On with velocity 0 decodes to NoteOff(note, 0) for every status
\* byte 0x90..0x9F, and parse_message never yields a NoteOn of velocity 0.
C9_NoteOnZeroIsNoteOff ==
    parsed # Pending =>
        /\ (Len(msg) >= 3 /\ msg[1] \in 144 .. 159 /\ msg[3] = 0)
              => parsed = [type |-> "NoteOff", d1 |-> msg[2], d2 |-> 0]
        /\ parsed.type = "NoteOn" => parsed.d2 # 0

\* C9 witness: a four-byte Note On on channel 15 with velocity 0, decoded.
C9_Witness ==
    /\ Len(msg) = 4 /\ msg[1] = 159 /\ msg[3] = 0
    /\ parsed.type = "NoteOff" /\ parsed.d2 = 0

\* Reference table of the decoder, by status nibble and length.
RefDecode(bytes) ==
    IF Len(bytes) < 3 THEN [type |-> "None"]
    ELSE CASE bytes[1] \div 16 = 8  -> [type |-> "NoteOff", d1 |-> bytes[2], d2 |-> bytes[3]]
           [] bytes[1] \div 16 = 9  ->
                  [type |-> IF bytes[3] > 0 THEN "NoteOn" ELSE "NoteOff",
                   d1 |-> bytes[2], d2 |-> bytes[3]]
           [] bytes[1] \div 16 = 11 -> [type |-> "ControlChange", d1 |-> bytes[2], d2 |-> bytes[3]]
           [] bytes[1] \div 16 = 14 -> [type |-> "PitchBend"]
           [] OTHER -> [type |-> "None"]

\* C10: parse_message is total and agrees with the reference table: the
\* high nibble of byte 0 alone selects the arm, bytes past the third are
\* ignored, and empty or short input and every other status give None.
C10_DecoderMatchesTable ==
    parsed # Pending =>
        /\ parsed.type \in {"None", "NoteOn", "NoteOff", "ControlChange", "PitchBend"}
        /\ parsed.type = RefDecode(msg).type
        /\ parsed.type \in {"NoteOn", "NoteOff", "ControlChange"} => parsed = RefDecode(msg)
        /\ Len(msg) > 3 => parsed = parse_message(SubSeq(msg, 1, 3))

\* C10 witness: a Control Change on a channel other than 0 with a trailing
\* fourth byte, decoded.
C10_Witness ==
    /\ Len(msg) = 4 /\ msg[1] = 179 /\ msg[4] = 255
    /\ parsed = [type |-> "ControlChange", d1 |-> msg[2], d2 |-> msg[3]]

\* C11: a pitch-bend message of at least 3 bytes decodes to
\* (bytes[2] << 7) | bytes[1], and the i16 computation never overflows: the
\* result is the unbounded value for every pair of bytes; for 7-bit data bytes
\* it is bytes[2] * 128 + bytes[1], in 0..16383 (8192 for 00 40, 16383 for
\* 7F 7F, 0 for 00 00).
C11_PitchBendValue ==
    (parsed # Pending /\ Len(msg) >= 3 /\ msg[1] \div 16 = 14) =>
        LET lsb == msg[2]
            msb == msg[3]
            \* bit 7 of lsb falls on bit 0 of msb after the shift
            unbounded == msb * 128 + (lsb % 128)
                         + (IF lsb >= 128 /\ msb % 2 = 0 THEN 128 ELSE 0)
        IN  /\ parsed.type = "PitchBend"
            /\ parsed.value = unbounded
            /\ parsed.value \in 0 .. 32767
            /\ (lsb <= 127 /\ msb <= 127) =>
                  (parsed.value = msb * 128 + lsb /\ parsed.value \in 0 .. 16383)
            /\ (lsb = 0 /\ msb = 64) => parsed.value = 8192
            /\ (lsb = 127 /\ msb = 127) => parsed.value = 16383
            /\ (lsb = 0 /\ msb = 0) => parsed.value = 0

\* C11 witness: the largest byte pair on a channel other than 0, decoded.
C11_Witness ==
    /\ Len(msg) >= 3 /\ msg[1] = 239 /\ msg[2] = 255 /\ msg[3] = 255
    /\ parsed.type = "PitchBend" /\ parsed.value = 32767

\* C12: every event parse_message returns lies in the MidiEvent domain of the
\* data model: 7-bit notes, controllers and values, NoteOn velocity 1..127,
\* PitchBend 0..16383.
C12_EventInDomain ==
    /\ parsed.type = "NoteOn" => (parsed.d1 \in 0 .. 127 /\ parsed.d2 \in 1 .. 127)
    /\ parsed.type = "NoteOff" => parsed.d1 \in 0 .. 127
    /\ parsed.type = "ControlChange" => (parsed.d1 \in 0 .. 127 /\ parsed.d2 \in 0 .. 127)
    /\ parsed.type = "PitchBend" => parsed.value \in 0 .. 16383

\* ===================================================== input bridge claims
\* The callback of act.conn ran its send step on a message that decodes.
SentEvent ==
    /\ act.name = "Send"
    /\ parse_message(log[act.seq].bytes) # None

\* C13: the queue never holds more than 256 events; a send step that finds it
\* at 256 leaves it exactly as it was, and the callback has returned.
C13_QueueBounded ==
    /\ Len(queue) <= QueueCapacity
    /\ (SentEvent /\ Len(bpre.queue) = QueueCapacity) =>
           /\ queue = bpre.queue
           /\ cb[act.conn] = IdleCallback
           /\ log[act.seq].done

\* A decoded event met a queue of 256 and was refused as Full.
C13_Witness ==
    /\ SentEvent
    /\ Len(bpre.queue) = QueueCapacity
    /\ log[act.seq].full
    /\ Len(queue) = QueueCapacity

\* Events handed to the channel and not refused: those polled, then those
\* still queued.
Enqueued == received \o queue

\* Invocations of the callback that have returned and whose message decodes.
DecodedDeliveries ==
    {k \in 1 .. Len(log) : log[k].done /\ parse_message(log[k].bytes) # None}

\* Every event handed to the channel is the decoding of one delivery, and no
\* delivery is there twice.
OneEventPerDelivery ==
    /\ \A i \in 1 .. Len(Enqueued) :
           /\ Enqueued[i].seq \in 1 .. Len(log)
           /\ Enqueued[i].ev = parse_message(log[Enqueued[i].seq].bytes)
           /\ Enqueued[i].ev # None
    /\ \A i, j \in 1 .. Len(Enqueued) : Enqueued[i].seq = Enqueued[j].seq => i = j

\* A decoded delivery is missing only when the queue was full or the liveness
\* flag was cleared by the time of its send.
MissingOnlyFullOrCleared ==
    \A k \in DecodedDeliveries :
        (\A i \in 1 .. Len(Enqueued) : Enqueued[i].seq # k) =>
            (log[k].full \/ ~log[k].flag \/ ~log[k].flagAtSend)

\* C14: the events returned by try_recv are, in the same order, events decoded
\* from the raw deliveries (numbered in the order the transport made them), a
\* delivery gives at most one event, and a decoded delivery is missing only
\* when the queue was full or the liveness flag was cleared.
C14_DeliveryOrder ==
    /\ \A i, j \in 1 .. Len(received) : i < j => received[i].seq < received[j].seq
    /\ OneEventPerDelivery
    /\ MissingOnlyFullOrCleared

\* What does hold: the order among the deliveries of one connection.
OrderPerConnection ==
    /\ \A i, j \in 1 .. Len(received) :
           (i < j /\ received[i].conn = received[j].conn) => received[i].seq < received[j].seq
    /\ OneEventPerDelivery
    /\ MissingOnlyFullOrCleared

\* C15: try_recv on an empty queue returns None and changes nothing; on a
\* non-empty queue it returns the head and removes exactly that event.
C15_PollDequeues ==
    act.name = "try_recv" =>
        /\ connection = bpre.connection
        /\ running = bpre.running
        /\ open = bpre.open
        /\ IF Len(bpre.queue) = 0
           THEN act.ret = None /\ queue = bpre.queue
           ELSE /\ act.ret = Head(bpre.queue)
                /\ queue = Tail(bpre.queue)
                /\ Len(queue) = Len(bpre.queue) - 1

\* A poll took the older of two queued events.
C15_Witness ==
    /\ act.name = "try_recv"
    /\ Len(bpre.queue) = 2
    /\ act.ret = bpre.queue[1]
    /\ queue = <<bpre.queue[2]>>

\* C16: when disconnect has run, the flag is clear and no connection is
\* stored; a callback that reads the cleared flag returns at once, leaving
\* the queue as it was, so every event handed to the channel comes from a
\* delivery that read the flag as set.
C16_DisconnectStopsEnqueues ==
    /\ act.name = "DisconnectTake" => (~running /\ connection = NoConnection)
    /\ (act.name = "Deliver" /\ ~bpre.running) =>
           /\ queue = bpre.queue
           /\ cb[act.conn] = IdleCallback
           /\ log[act.seq].done
           /\ log[act.seq].sends = 0
    /\ \A i \in 1 .. Len(Enqueued) : log[Enqueued[i].seq].flag

\* After a disconnect and a later connect, the transport delivered a Note On
\* and the callback returned without enqueuing it.
C16_Witness ==
    /\ act.name = "Deliver"
    /\ ~bpre.running
    /\ bpre.connection # NoConnection
    /\ connects = 2
    /\ parse_message(log[act.seq].bytes) # None
    /\ queue = bpre.queue

\* The send step of a callback that passed the check before the flag was
\* cleared and sends after.
InFlightSend ==
    /\ SentEvent
    /\ log[act.seq].flag
    /\ ~bpre.running

\* C17: a callback in flight across disconnect or drop makes one try_send
\* after the flag was cleared; it enqueues its one event, or the send fails
\* on a full queue or a dropped receiver and the queue stays as it was; either
\* way the callback has returned.
C17_InFlightSendOnce ==
    /\ InFlightSend =>
           /\ cb[act.conn] = IdleCallback
           /\ log[act.seq].done
           /\ \/ /\ ~log[act.seq].full /\ ~log[act.seq].gone
                 /\ Len(queue) = Len(bpre.queue) + 1
                 /\ SubSeq(queue, 1, Len(bpre.queue)) = bpre.queue
                 /\ queue[Len(queue)].seq = act.seq
              \/ /\ log[act.seq].full \/ log[act.seq].gone
                 /\ queue = bpre.queue
    /\ \A k \in 1 .. Len(log) : log[k].sends <= 1

\* A callback in flight across a disconnect met a queue of 256.
C17_Witness ==
    /\ InFlightSend
    /\ log[act.seq].full
    /\ Len(bpre.queue) = QueueCapacity
    /\ queue = bpre.queue

\* A callback in flight across a drop of the handler found the receiver gone.
InFlightSendReceiverGone == InFlightSend /\ log[act.seq].gone /\ ~alive

\* A callback in flight across a disconnect enqueued its event.
InFlightSendEnqueued == InFlightSend /\ Len(queue) = Len(bpre.queue) + 1

\* C18: the flag is set by construction, cleared by the store of disconnect
\* (called directly or from drop), and changed by nothing else: once clear it
\* stays clear, through a later connect_device as well.
C18_FlagLifecycle ==
    /\ act.name = "new" => running
    /\ act.name = "DisconnectStore" => ~running
    /\ act.name # "DisconnectStore" => running = bpre.running
    /\ act.name = "DisconnectTake" => ~running

\* A connect_device that succeeded after a disconnect, the flag still clear.
C18_Witness ==
    /\ act.name = "connect_device"
    /\ act.ret = "Ok"
    /\ connects = 2
    /\ bpre.connection = NoConnection
    /\ ~bpre.running
    /\ ~running

\* C19: connect_device with an index at or past the number of ports returns
\* an error; the stored connection, the queue and the flag are as before and
\* no connection was opened, so no callback was installed.
C19_OutOfRangeConnect ==
    (act.name = "connect_device" /\ act.index >= act.nports) =>
        /\ act.ret = "Err"
        /\ connection = bpre.connection
        /\ queue = bpre.queue
        /\ running = bpre.running
        /\ open = bpre.open
        /\ pend = NoConnection
        /\ hpc = "idle"

\* connect_device(1) with one port listed failed on a handler that holds an
\* earlier connection and a queued event.
C19_Witness ==
    /\ act.name = "connect_device"
    /\ act.index = 1 /\ act.nports = 1
    /\ act.ret = "Err"
    /\ bpre.connection # NoConnection
    /\ connection = bpre.connection
    /\ Len(queue) >= 1

\* =================================================== controller map claims
\* C20: a CCMap no set_mapping has touched holds (1, FilterCutoff),
\* (74, FilterResonance) and fourteen (0, Unused) slots; map_cc gives
\* FilterCutoff for controller 1, FilterResonance for controller 74 and None
\* for every other controller number, whatever the value.
C20_DefaultMap ==
    sets = 0 =>
        /\ DOMAIN mappings = 0 .. 15
        /\ mappings[0] = [cc |-> 1, target |-> "FilterCutoff"]
        /\ mappings[1] = [cc |-> 74, target |-> "FilterResonance"]
        /\ \A i \in 2 .. 15 : mappings[i] = [cc |-> 0, target |-> "Unused"]
        /\ ccout # Pending =>
               /\ ccin.cc = 1 => (ccout.kind = "Some" /\ ccout.target = "FilterCutoff")
               /\ ccin.cc = 74 => (ccout.kind = "Some" /\ ccout.target = "FilterResonance")
               /\ ccin.cc \notin {1, 74} => ccout = NotMapped

\* map_cc(0, 255) on the fresh map: controller 0 is the number the Unused
\* slots hold, and the result is None.
C20_Witness ==
    /\ sets = 0
    /\ ccin = [cc |-> 0, value |-> 255]
    /\ ccout = NotMapped

\* Slots of table m that map_cc(c, _) can answer from.
Bound(m, c) == {i \in SlotIdx : m[i].cc = c /\ m[i].target # "Unused"}
\* Slots of table m that set_mapping(c, _) may overwrite.
Writable(m, c) == {i \in SlotIdx : m[i].target = "Unused" \/ m[i].cc = c}

MapCalled == cclast.name = "map_cc"
SetCalled == cclast.name = "set_mapping"
\* map_cc(c, v) was called right after set_mapping(c, t).
MapAfterSet ==
    /\ MapCalled
    /\ cclast.prev.name = "set_mapping"
    /\ cclast.prev.cc = ccin.cc

C22_SetMappingOneSlot ==
    /\ DOMAIN mappings = 0 .. 15
    /\ (SetCalled /\ Writable(ccpre, cclast.cc) # {}) =>
           LET k == SetMin(Writable(ccpre, cclast.cc))
           IN  /\ mappings[k] = [cc |-> cclast.cc, target |-> cclast.target]
               /\ \A i \in SlotIdx \ {k} : mappings[i] = ccpre[i]

\* The slot written was bound to the controller with another target, below
\* the free slots.
C22_Witness ==
    /\ SetCalled
    /\ Cardinality(Writable(ccpre, cclast.cc)) >= 2
    /\ ccpre[SetMin(Writable(ccpre, cclast.cc))] = [cc |-> 74, target |-> "FilterResonance"]
    /\ cclast.target = "AttackTime"
    /\ mappings[1] = [cc |-> 74, target |-> "AttackTime"]

\* C23: on a table whose sixteen slots are bound, none to c, set_mapping(c, t)
\* leaves the table as it was, and map_cc(c, v) returns None afterwards.
C23_FullTableNoOp ==
    /\ (SetCalled /\ Writable(ccpre, cclast.cc) = {}) => mappings = ccpre
    /\ (MapAfterSet /\ Writable(cclast.before, ccin.cc) = {}) =>
           (ccout = NotMapped /\ mappings = cclast.before)

\* set_mapping(42, AttackTime) on the full table, then map_cc(42, v).
C23_Witness ==
    /\ MapAfterSet
    /\ Writable(cclast.before, ccin.cc) = {}
    /\ cclast.prev.target = "AttackTime"
    /\ ccin.cc = 42
    /\ ccout = NotMapped

\* C24 as stated: after set_mapping(c, t) with t other than Unused,
\* map_cc(c, v) returns Some((t, v/127)).
C24_MapAfterSet ==
    (MapAfterSet /\ cclast.prev.target # "Unused") =>
        ccout = Mapped(cclast.prev.target, ccin.value)

\* C24 amended: the same when the table had, before set_mapping(c, t), a slot
\* that was Unused or bound to c.
C24_MapAfterSetWithRoom ==
    (MapAfterSet /\ cclast.prev.target # "Unused"
                 /\ Writable(cclast.before, ccin.cc) # {}) =>
        ccout = Mapped(cclast.prev.target, ccin.value)

\* Controller 1, bound to FilterCutoff by new, was set to AttackTime and
\* maps to AttackTime.
C24_Witness ==
    /\ MapAfterSet
    /\ ccin.cc = 1
    /\ Bound(cclast.before, 1) # {}
    /\ cclast.before[SetMin(Bound(cclast.before, 1))].target = "FilterCutoff"
    /\ cclast.prev.target = "AttackTime"
    /\ ccout.kind = "Some" /\ ccout.target = "AttackTime"


\* ======================================================= VoiceState claims
\* C28: trigger(n, v) makes the voice active with note n, velocity v, stage
\* Attack and envelope level 0 whatever the state before; release on an active
\* voice sets the stage to Release and leaves it active; reset makes the voice
\* inactive and Idle and zeroes the phase, the filter memory and the level.
C28_VoiceStateOps ==
    /\ vlast.op = "trigger" =>
          /\ voice.active
          /\ voice.note = vlast.note
          /\ voice.velocity = vlast.velocity
          /\ voice.env_stage = "Attack"
          /\ voice.env_level = F32Zero
    /\ (vlast.op = "release" /\ vpre.active) =>
          /\ voice.env_stage = "Release"
          /\ voice.active
    /\ vlast.op = "reset" =>
          /\ ~voice.active
          /\ voice.env_stage = "Idle"
          /\ voice.osc_phase = F32Zero
          /\ voice.filter_z1 = F32Zero
          /\ voice.filter_z2 = F32Zero
          /\ voice.env_level = F32Zero

\* An active voice in its Sustain stage was released.
C28_Witness ==
    /\ vlast.op = "release"
    /\ vpre.active
    /\ vpre.env_stage = "Sustain"
    /\ vpre.env_level = F32One
    /\ voice.env_stage = "Release"
    /\ voice.active

\* C30: through new, trigger, release and reset the envelope stage changes
\* only from Idle to Attack on trigger and from any stage to Release on
\* release, and the stages Decay and Sustain are never entered.
C30_StageTransitions ==
    /\ voice.env_stage \notin {"Decay", "Sustain"}
    /\ voice.env_stage # vpre.env_stage =>
          \/ vlast.op = "trigger" /\ vpre.env_stage = "Idle" /\ voice.env_stage = "Attack"
          \/ vlast.op = "release" /\ voice.env_stage = "Release"

\* C30 as amended: the stage changes only to Attack on trigger (from any
\* stage), to Release on release of an active voice and to Idle on reset, and
\* the stages Decay and Sustain are never entered.
C30_StageTransitionsWithReset ==
    /\ voice.env_stage \notin {"Decay", "Sustain"}
    /\ voice.env_stage # vpre.env_stage =>
          \/ vlast.op = "trigger" /\ voice.env_stage = "Attack"
          \/ vlast.op = "release" /\ vpre.active /\ voice.env_stage = "Release"
          \/ vlast.op = "reset" /\ voice.env_stage = "Idle"

\* A voice triggered and released was reset, its stage going from Release to Idle.
C30_Witness ==
    /\ vlast.op = "reset"
    /\ vpre.env_stage = "Release"
    /\ vpre.active
    /\ voice.env_stage = "Idle"

\* ==================================================== ParamSmoother claims
\* C25: set_target(v) changes only the target: the current value and the
\* coefficient are the same before and after the call and the target is v;
\* the current value changes on next_sample (or is set by reset), on no
\* set_target call.
C25_SetTargetOnlyTarget ==
    /\ smlast.op = "set_target" =>
          /\ sm.current = smpre.current
          /\ sm.coeff = smpre.coeff
          /\ sm.target = smlast.arg
    /\ sm.current # smpre.current => smlast.op \in {"next_sample", "reset"}

\* set_target(1.0) on a smoother that a reset left above 1.0: the target
\* moved, the current value did not.
C25_Witness ==
    /\ smlast.op = "set_target"
    /\ smlast.arg = F32One
    /\ smpre.target # F32One
    /\ sm.target = F32One
    /\ F32Less(F32One, sm.current)
    /\ sm.current = smpre.current

\* The last call was a next_sample on a smoother away from its target.
SampledOffTarget == smlast.op = "next_sample" /\ smpre.current # smpre.target

\* The StepSamples-th sample after set_target(1.0) on a new 1 ms smoother.
StepTestDone ==
    /\ smlast.op = "next_sample"
    /\ smsteps = 1
    /\ ~smlast.held
    /\ smlast.arg = F32One
    /\ smlast.run = StepSamples

\* C26: with the target held constant, each next_sample moves the current
\* value strictly toward the target and never past it; the step from 0 to 1
\* with a 1 ms time constant at 44.1 kHz is within 0.01 of 1.0 after 1000
\* samples.
C26_MonotoneNoOvershoot ==
    /\ SampledOffTarget =>
          IF F32Less(smpre.current, sm.target)
          THEN F32Less(smpre.current, sm.current) /\ ~F32Less(sm.target, sm.current)
          ELSE F32Less(sm.current, smpre.current) /\ ~F32Less(sm.current, sm.target)
    /\ StepTestDone =>
          F32Less(F32Abs(F32Sub(sm.current, F32One)), F32FromBits(Tolerance))

\* C27: reset(v) sets the current value and the target to v whatever the
\* state before, and every next_sample after it returns v, until set_target
\* is called with a different value.
C27_ResetHolds ==
    /\ smlast.op = "reset" =>
          /\ sm.current = smlast.arg
          /\ sm.target = smlast.arg
    /\ (smlast.op = "next_sample" /\ smlast.held) =>
          /\ smlast.out = sm.target
          /\ sm.current = sm.target

\* ====================================================== conversion claims
\* The position of a non-negative float among the floats (its bit pattern).
F32Ordinal(a) == IF a = F32Zero THEN 0 ELSE (a.e + 127) * SigMin + (a.m - SigMin)

\* The MIDI velocities.
Velocities == 0 .. 127

\* C29: for v in 0..127, velocity_to_gain(v) is (v/127)^2 (to within 3 ulp of
\* the correctly rounded quotient v*v/16129), exactly 0 for v = 0 and 1 for
\* v = 127, within [0,1], greater than the gain of every smaller velocity,
\* and convex: twice the gain at v is less than the sum of the gains at v - d
\* and v + d.
C29_GainSquare ==
    (gain # Pending /\ gvel \in Velocities) =>
        /\ LET exact == F32Ordinal(F32DivInt(gvel * gvel, 127 * 127))
           IN  F32Ordinal(gain) - exact \in -3 .. 3
        /\ gvel = 0 => gain = F32Zero
        /\ gvel = 127 => gain = F32One
        /\ ~gain.neg /\ ~F32Less(F32One, gain)
        /\ \A w \in Velocities : \A g \in velocity_to_gain(w) :
              w < gvel => F32Less(g, gain)
        /\ \A d \in 1 .. 63 :
              (gvel - d \in Velocities /\ gvel + d \in Velocities) =>
                  \A lo \in velocity_to_gain(gvel - d), hi \in velocity_to_gain(gvel + d) :
                      F32Less(F32Add(gain, gain), F32Add(lo, hi))

\* velocity_to_gain(64) returned a value between 0.25 and 0.26.
C29_Witness ==
    /\ gvel = 64
    /\ gain # Pending
    /\ F32Less(F32DivInt(25, 100), gain)
    /\ F32Less(gain, F32DivInt(26, 100))

C32_ActiveAgesDistinct ==
    nalloc.hi < Half =>
        /\ \A i, j \in VoiceIdx :
              (i # j /\ voices[i].active /\ voices[j].active) =>
                  voices[i].age # voices[j].age
        /\ \A i \in VoiceIdx : voices[i].active => U32Less(voices[i].age, next_age)
        /\ PoolFull(voices) => Cardinality(MinAgeSlots(voices)) = 1

\* A full pool after a steal and a release-and-reallocate: the ages are not
\* in slot order any more.
C32_Witness ==
    /\ PoolFull(voices)
    /\ rels > 0
    /\ steps > MAX_VOICES
    /\ \E i \in VoiceIdx : i > 0 /\ U32Less(voices[i].age, voices[i - 1].age)

C34_DisconnectKeepsQueue ==
    /\ (act.name \in {"DisconnectStore", "DisconnectTake"} /\ act.how = "disconnect") =>
          queue = bpre.queue
    /\ (act.name = "try_recv" /\ ~bpre.running /\ bpre.queue # <<>>) =>
          /\ act.ret = Head(bpre.queue)
          /\ queue = Tail(bpre.queue)
          /\ received[Len(received)] = Head(bpre.queue)

\* An event enqueued before disconnect() was returned by a try_recv made
\* after the disconnect had completed.
C34_Witness ==
    /\ act.name = "try_recv"
    /\ act.ret # None
    /\ ~bpre.running
    /\ bpre.connection = NoConnection
    /\ alive
    /\ log[act.ret.seq].flag

\* The event of callback invocation k is in the queue / has been returned.
InQueue(k) == \E i \in DOMAIN queue : queue[i].seq = k
Returned(k) == \E i \in DOMAIN received : received[i].seq = k

\* No event was returned twice, and none returned is still in the queue.
ReturnedOnce ==
    /\ \A i, j \in DOMAIN received : i # j => received[i].seq # received[j].seq
    /\ \A i \in DOMAIN received : ~InQueue(received[i].seq)

\* C35: with a consumer that keeps calling try_recv, every event the callback
\* enqueued is eventually returned by try_recv, and exactly once: none is
\* lost and none is returned twice.
C35_EnqueuedReturnedOnce ==
    /\ []ReturnedOnce
    /\ \A k \in 1 .. MaxDeliveries : InQueue(k) ~> Returned(k)

\* Both events of two deliveries have been returned and the queue is empty.
C35_Witness ==
    /\ Len(received) = 2
    /\ received[1].seq = 1 /\ received[2].seq = 2
    /\ queue = <<>>
    /\ log[1].sends = 1 /\ log[2].sends = 1


\* ============================================ controller map claims, II
\* C36: after any sequence of set_mapping calls on the table as constructed,
\* no controller number is bound in two slots whose targets both differ from
\* Unused.
C36_OneLiveSlotPerController ==
    \A c \in CCNumbers : Cardinality(Bound(mappings, c)) <= 1

\* C37: after set_mapping(c, Unused), map_cc(c, v) returns None.
C37_UnusedRemovesMapping ==
    (MapAfterSet /\ cclast.prev.target = "Unused") => ccout = NotMapped


\* ================================================== conversions claims, II
\* C38: every PitchBend value parse_message produces is in 0 .. 32767, and
\* the subtraction bend - 8192 of pitch_bend_to_ratio on it stays within the
\* i16 range: it does not overflow and yields the exact difference.
C38_BendOffsetInRange ==
    /\ parsed.type = "PitchBend" => parsed.value \in 0 .. 32767
    /\ bendout # Pending =>
          /\ ~bendout.overflow
          /\ bendout.offset = parsed.value - BendCenter
          /\ bendout.offset \in -8192 .. 24575

\* The largest bend, bytes [0xEF, 0xFF, 0xFF] -> 32767, went through
\* pitch_bend_to_ratio: the difference is 24575.
C38_Witness ==
    /\ msg = <<239, 255, 255>>
    /\ parsed = PitchBend(32767)
    /\ bendout = [overflow |-> FALSE, offset |-> 24575]

\* ==================================================== poly_synth claims
\* C39: handling one NoteOff(note) event, handle_midi_event followed by
\* process_messages, deactivates at most one slot of the VoiceAllocator.
C39_NoteOffFreesOneSlot ==
    \A k \in DOMAIN noteoffs : Cardinality(noteoffs[k]) <= 1

\* C40: the main loop never blocks: no send of handle_midi_event finds the
\* synth channel full.
C40_ConsumerNeverBlocks == spc # "blocked"

====
